---- MODULE Spec2Model ----
(***************************************************************************)
(* A model of the website-analysis core of portal.aichroney:               *)
(*   server/websiteAnalysisService.ts  (WebsiteAnalysisService)            *)
(*   server/routes.ts                  (the /api/website-analysis routes)  *)
(*   DatabaseStorage                   (the website-analysis methods)      *)
(*                                                                         *)
(* A JavaScript string is modelled as a sequence of one-character strings, *)
(* so that startsWith, includes, toLowerCase, the IPv4 regular expression  *)
(* and URL parsing are computed on the characters as the code computes     *)
(* them.  An error message is a sequence of words.                         *)
(*                                                                         *)
(* Five groups of variables, one per specification family:                 *)
(*   IpSpec   isPrivateIP applied to a table of address texts              *)
(*   UrlSpec  one call of scrapeWebsite / fetchPageHtml                    *)
(*   BodySpec one fetch of scrapeWebsite / fetchPageHtml: timer and body   *)
(*   LinkSpec findImportantPages over the links of a homepage              *)
(*   RunSpec  the analysis runs of the tenants against the storage         *)
(*   SeqSpec  the same, each request made after the previous run ended     *)
(* A specification leaves the other groups at their idle values.           *)
(***************************************************************************)
EXTENDS Integers, Sequences, FiniteSets, TLC

VARIABLES
    ip,          \* IpSpec: the text handed to isPrivateIP
    ipSrc,       \* IpSpec: how that text was built (the address it denotes)
    ipResult,    \* IpSpec: [called, value]: whether isPrivateIP ran, and what it returned
    callKind,    \* UrlSpec: "scrapeWebsite" or "fetchPageHtml"
    callUrl,     \* UrlSpec: the url argument of the call
    callPc,      \* UrlSpec: where the call is
    dns,         \* UrlSpec: what resolve4 and resolve6 answered during validateUrl
    validated,   \* UrlSpec: what validateUrl returned or threw
    requests,    \* UrlSpec: the URLs HTTP requests were issued to, in order
    response,    \* UrlSpec: the status of the response (0: none yet)
    callError,   \* UrlSpec: the message of the error the call threw (<<>>: none)
    fetchKind,   \* BodySpec: "scrapeWebsite" or "fetchPageHtml"
    fetchPc,     \* BodySpec: where the call is
    timer,       \* BodySpec: the setTimeout that aborts the fetch: armed, cleared or fired
    deadlinePassed,  \* BodySpec: whether the timeout of the call has elapsed
    served,      \* BodySpec: what the server answers: status, headers, body chunks
    remaining,   \* BodySpec: the body chunks not read yet
    totalSize,   \* BodySpec: the totalSize counter of the read loop
    buffered,    \* BodySpec: the body bytes held by the call (its chunks, or the text)
    consumed,    \* BodySpec: the body bytes read off the response so far
    fetchCause,  \* BodySpec: the message of the error thrown inside the try (<<>>: none)
    fetchError,  \* BodySpec: the message of the error the call threw (<<>>: none)
    returnedLength,  \* BodySpec: the length of the string the call returned
    baseUrl,     \* LinkSpec: the baseUrl of the call of findImportantPages
    links,       \* LinkSpec: the hrefs of the a[href] elements visited, in document order
    importantPages,  \* LinkSpec: the Set of findImportantPages, in insertion order
    linkPc,      \* LinkSpec: where the call is
    returnedPages,   \* LinkSpec: what the call returned
    websiteAnalysis,  \* RunSpec: the website_analysis row of each tenant
    analyzedPages,    \* RunSpec: the analyzed_pages rows of each tenant, in insertion order
    runs,             \* RunSpec: each request and the run it started: position and locals
    finished,         \* RunSpec: the runs that terminated, in the order they did
    onlyAppend        \* RunSpec: per tenant, whether every run so far was in append mode

ipVars == <<ip, ipSrc, ipResult>>

urlVars == <<callKind, callUrl, callPc, dns, validated, requests, response, callError>>

fetchVars ==
    <<fetchKind, fetchPc, timer, deadlinePassed, served, remaining, totalSize, buffered,
      consumed, fetchCause, fetchError, returnedLength>>

linkVars == <<baseUrl, links, importantPages, linkPc, returnedPages>>

runVars == <<websiteAnalysis, analyzedPages, runs, finished, onlyAppend>>

vars == <<ipVars, urlVars, fetchVars, linkVars, runVars>>

(***************************************************************************)
(* String primitives                                                       *)
(***************************************************************************)
UpperCase ==
    <<"A","B","C","D","E","F","G","H","I","J","K","L","M",
      "N","O","P","Q","R","S","T","U","V","W","X","Y","Z">>

LowerCase ==
    <<"a","b","c","d","e","f","g","h","i","j","k","l","m",
      "n","o","p","q","r","s","t","u","v","w","x","y","z">>

DigitChars == <<"0","1","2","3","4","5","6","7","8","9">>

HexChars == <<"0","1","2","3","4","5","6","7","8","9","a","b","c","d","e","f">>

toLowerChar(c) ==
    IF \E i \in 1..26 : UpperCase[i] = c
    THEN LowerCase[CHOOSE i \in 1..26 : UpperCase[i] = c]
    ELSE c

toLowerCase(s) == [i \in 1..Len(s) |-> toLowerChar(s[i])]

startsWith(s, p) == Len(s) >= Len(p) /\ SubSeq(s, 1, Len(p)) = p

includes(s, p) == \E i \in 0..(Len(s) - Len(p)) : SubSeq(s, i + 1, i + Len(p)) = p

isDigit(c) == \E i \in 1..10 : DigitChars[i] = c

isHexDigit(c) == \E i \in 1..16 : HexChars[i] = toLowerChar(c)

hexValue(c) == (CHOOSE i \in 1..16 : HexChars[i] = toLowerChar(c)) - 1

\* The value of a run of digits in the given radix (Number(), parseInt()).
RECURSIVE numberIn(_, _)
numberIn(ds, radix) ==
    IF ds = <<>> THEN 0
    ELSE radix * numberIn(SubSeq(ds, 1, Len(ds) - 1), radix) + hexValue(ds[Len(ds)])

Number(ds) == numberIn(ds, 10)

\* The positions of character c in s, and the first of them (0 when absent).
positionsOf(s, c) == {i \in 1..Len(s) : s[i] = c}

minOf(S) == CHOOSE i \in S : \A j \in S : i <= j

maxOf(S) == CHOOSE i \in S : \A j \in S : i >= j

firstOf(S) == IF S = {} THEN 0 ELSE minOf(S)

indexOf(s, c) == firstOf(positionsOf(s, c))

\* s.split(c), the separator found at position at (0: not found).
RECURSIVE splitAt(_, _, _)
splitAt(s, c, at) ==
    IF at = 0 THEN <<s>>
    ELSE <<SubSeq(s, 1, at - 1)>>
            \o splitAt(SubSeq(s, at + 1, Len(s)), c, indexOf(SubSeq(s, at + 1, Len(s)), c))

split(s, c) == splitAt(s, c, indexOf(s, c))

RECURSIVE pow2(_)
pow2(k) == IF k = 0 THEN 1 ELSE 2 * pow2(k - 1)

\* The decimal text of n (0..999), optionally with a leading zero.
decimalText(n) ==
    IF n < 10 THEN <<DigitChars[n + 1]>>
    ELSE IF n < 100 THEN <<DigitChars[(n \div 10) + 1], DigitChars[(n % 10) + 1]>>
    ELSE <<DigitChars[(n \div 100) + 1], DigitChars[((n \div 10) % 10) + 1], DigitChars[(n % 10) + 1]>>

(***************************************************************************)
(* isPrivateIP (HostPolicy)                                                *)
(***************************************************************************)
\* /^(\d{1,3})\.(\d{1,3})\.(\d{1,3})\.(\d{1,3})$/ and .map(Number): the four
\* numbers, or <<>> when the text does not match.
ipv4Parts(parts) ==
    IF /\ Len(parts) = 4
       /\ \A k \in 1..4 :
            /\ Len(parts[k]) \in 1..3
            /\ \A i \in 1..Len(parts[k]) : isDigit(parts[k][i])
    THEN <<Number(parts[1]), Number(parts[2]), Number(parts[3]), Number(parts[4])>>
    ELSE <<>>

ipv4Match(text) == ipv4Parts(split(text, "."))

\* The mutant of C9: the 172.16.0.0/12 test with the wrong upper end.
ipv4PrivateRange172To32(a, b, c) ==
    \/ a = 0
    \/ a = 10
    \/ a = 127
    \/ (a = 172 /\ b >= 16 /\ b <= 32)
    \/ (a = 192 /\ b = 168)
    \/ (a = 169 /\ b = 254)
    \/ (a = 192 /\ b = 0 /\ c = 2)
    \/ (a = 198 /\ b = 51 /\ c = 100)
    \/ (a = 203 /\ b = 0 /\ c = 113)
    \/ a >= 224

ipv4PrivateRange(a, b, c) ==
    \/ a = 0
    \/ a = 10
    \/ a = 127
    \/ (a = 172 /\ b >= 16 /\ b <= 31)
    \/ (a = 192 /\ b = 168)
    \/ (a = 169 /\ b = 254)
    \/ (a = 192 /\ b = 0 /\ c = 2)
    \/ (a = 198 /\ b = 51 /\ c = 100)
    \/ (a = 203 /\ b = 0 /\ c = 113)
    \/ a >= 224

ipv6PrivateRange(ipLower) ==
    \/ ipLower = <<":",":","1">>
    \/ startsWith(ipLower, <<":",":","f","f","f","f",":">>)
    \/ startsWith(ipLower, <<"f","e","8","0",":">>)
    \/ startsWith(ipLower, <<"f","c">>)
    \/ startsWith(ipLower, <<"f","d">>)
    \/ startsWith(ipLower, <<"f","f">>)
    \/ ipLower = <<":",":">>

privateByMatch(m, text) ==
    IF m # <<>> /\ (m[1] > 255 \/ m[2] > 255 \/ m[3] > 255 \/ m[4] > 255)
    THEN TRUE
    ELSE IF m # <<>> /\ ipv4PrivateRange(m[1], m[2], m[3])
    THEN TRUE
    ELSE ipv6PrivateRange(toLowerCase(text))

isPrivateIP(text) == privateByMatch(ipv4Match(text), text)

(***************************************************************************)
(* new URL(text): the WHATWG URL parser, for the special schemes, over     *)
(* texts without tab, newline, "?" , "#" or percent-escapes.  An IPv6      *)
(* literal is taken as already compressed (only its case is normalised).   *)
(***************************************************************************)
SpecialSchemes == {<<"h","t","t","p">>, <<"h","t","t","p","s">>, <<"f","t","p">>, <<"w","s">>, <<"w","s","s">>}

ForbiddenHostChars == {" ", "#", "/", ":", "<", ">", "?", "@", "[", "\\", "]", "^", "|", "%"}

isAlpha(c) == \E i \in 1..26 : LowerCase[i] = toLowerChar(c)

isSchemeChar(c) == isAlpha(c) \/ isDigit(c) \/ c \in {"+", "-", "."}

RECURSIVE skipSlashes(_)
skipSlashes(s) ==
    IF s # <<>> /\ s[1] \in {"/", "\\"} THEN skipSlashes(Tail(s)) ELSE s

\* Where the authority ends: the first "/" or "\", or one past the end.
stopOr(stops, end) == IF stops = {} THEN end ELSE minOf(stops)

authorityEnd(s) == stopOr({i \in 1..Len(s) : s[i] \in {"/", "\\"}}, Len(s) + 1)

\* The authority without its userinfo (everything up to the last "@").
afterLast(auth, ats) ==
    IF ats = {} THEN auth ELSE SubSeq(auth, maxOf(ats) + 1, Len(auth))

afterUserinfo(auth) == afterLast(auth, positionsOf(auth, "@"))

\* One part of a dotted IPv4 host: 0x.. is hexadecimal, a leading 0 octal.
\* -1 is the parser's failure.
parseIPv4Number(part) ==
    IF part = <<>> THEN -1
    ELSE IF Len(part) >= 2 /\ part[1] = "0" /\ toLowerChar(part[2]) = "x"
    THEN IF \A i \in 3..Len(part) : isHexDigit(part[i])
         THEN numberIn(SubSeq(part, 3, Len(part)), 16) ELSE -1
    ELSE IF Len(part) >= 2 /\ part[1] = "0"
    THEN IF \A i \in 2..Len(part) : part[i] \in {"0","1","2","3","4","5","6","7"}
         THEN numberIn(SubSeq(part, 2, Len(part)), 8) ELSE -1
    ELSE IF \A i \in 1..Len(part) : isDigit(part[i])
         THEN numberIn(part, 10) ELSE -1

\* The parts of a host, without the empty part a trailing dot leaves.
dropEmptyLast(parts) ==
    IF Len(parts) > 1 /\ parts[Len(parts)] = <<>>
    THEN SubSeq(parts, 1, Len(parts) - 1) ELSE parts

hostParts(host) == dropEmptyLast(split(host, "."))

isNumberPart(last) ==
    /\ last # <<>>
    /\ \/ \A i \in 1..Len(last) : isDigit(last[i])
       \/ Len(last) >= 2 /\ toLowerChar(last[2]) = "x" /\ parseIPv4Number(last) >= 0

lastOf(parts) == parts[Len(parts)]

endsInNumber(host) == isNumberPart(lastOf(hostParts(host)))

\* The IPv4 parser and serializer: the dotted-decimal text, or <<>> on failure.
\* The last part fills the remaining bytes.
serializeIPv4(nums, n) ==
    IF n > 4 THEN <<>>
    ELSE IF \E k \in 1..n : nums[k] < 0 THEN <<>>
    ELSE IF \E k \in 1..(n - 1) : nums[k] > 255 THEN <<>>
    ELSE IF n > 1 /\ nums[n] >= pow2(8 * (5 - n)) THEN <<>>
    ELSE decimalText(IF 1 < n THEN nums[1] ELSE (nums[n] \div pow2(24)) % 256) \o <<".">>
            \o decimalText(IF 2 < n THEN nums[2] ELSE (nums[n] \div pow2(16)) % 256) \o <<".">>
            \o decimalText(IF 3 < n THEN nums[3] ELSE (nums[n] \div pow2(8)) % 256) \o <<".">>
            \o decimalText(nums[n] % 256)

parseIPv4Parts(parts) ==
    serializeIPv4([k \in 1..Len(parts) |-> parseIPv4Number(parts[k])], Len(parts))

parseIPv4(host) == parseIPv4Parts(hostParts(host))

InvalidUrl == [ok |-> FALSE, protocol |-> <<>>, hostname |-> <<>>, port |-> <<>>,
               pathname |-> <<>>, href |-> <<>>]

\* The host parser: the serialized host, or <<>> on failure.
lowerHost(host) ==
    IF endsInNumber(host) THEN parseIPv4(host) ELSE host

parseHost(host) ==
    IF host = <<>> THEN <<>>
    ELSE IF host[1] = "["
    THEN IF /\ host[Len(host)] = "]"
            /\ Len(host) >= 4
            /\ \A i \in 2..(Len(host) - 1) : isHexDigit(host[i]) \/ host[i] \in {":", "."}
            /\ \E i \in 2..(Len(host) - 1) : host[i] = ":"
         THEN toLowerCase(host) ELSE <<>>
    ELSE IF \E i \in 1..Len(host) : host[i] \in ForbiddenHostChars THEN <<>>
    ELSE lowerHost(toLowerCase(host))

DefaultPort(scheme) ==
    IF scheme = <<"h","t","t","p">> \/ scheme = <<"w","s">> THEN 80
    ELSE IF scheme = <<"h","t","t","p","s">> \/ scheme = <<"w","s","s">> THEN 443
    ELSE 21

specialUrl(scheme, hostname, portText, pathname) ==
    IF hostname = <<>> THEN InvalidUrl
    ELSE [ok |-> TRUE, protocol |-> scheme \o <<":">>, hostname |-> hostname,
          port |-> IF portText = <<>> \/ Number(portText) = DefaultPort(scheme)
                   THEN <<>> ELSE portText,
          pathname |-> pathname,
          href |-> scheme \o <<":", "/", "/">> \o hostname
                    \o (IF portText = <<>> \/ Number(portText) = DefaultPort(scheme)
                        THEN <<>> ELSE <<":">> \o portText)
                    \o pathname]

\* The host and the port of an authority, the port's colon at position colon
\* (0: no port).
hostAndPort(scheme, auth, colon, pathname) ==
    IF colon = 0 THEN specialUrl(scheme, parseHost(auth), <<>>, pathname)
    ELSE IF /\ auth[colon] = ":"
            /\ Len(auth) - colon <= 5
            /\ \A i \in (colon + 1)..Len(auth) : isDigit(auth[i])
            /\ Number(SubSeq(auth, colon + 1, Len(auth))) <= 65535
    THEN specialUrl(scheme, parseHost(SubSeq(auth, 1, colon - 1)),
                    SubSeq(auth, colon + 1, Len(auth)), pathname)
    ELSE InvalidUrl

\* Where the port's colon is: after the "]" of an IPv6 literal, else the first.
portColon(auth, close) ==
    IF auth # <<>> /\ auth[1] = "["
    THEN (IF close = 0 \/ close = Len(auth) THEN 0 ELSE close + 1)
    ELSE indexOf(auth, ":")

authority(scheme, auth, pathname) ==
    hostAndPort(scheme, auth, portColon(auth, indexOf(auth, "]")), pathname)

afterSlashes(scheme, s, stop) ==
    authority(scheme, afterUserinfo(SubSeq(s, 1, stop - 1)),
              IF stop > Len(s) THEN <<"/">> ELSE SubSeq(s, stop, Len(s)))

slashesSkipped(scheme, s) == afterSlashes(scheme, s, authorityEnd(s))

parseSpecial(scheme, rest) == slashesSkipped(scheme, skipSlashes(rest))

schemeAt(text, colon) ==
    IF ~(colon > 1 /\ isAlpha(text[1]) /\ \A i \in 1..(colon - 1) : isSchemeChar(text[i]))
    THEN InvalidUrl
    ELSE IF toLowerCase(SubSeq(text, 1, colon - 1)) \in SpecialSchemes
    THEN parseSpecial(toLowerCase(SubSeq(text, 1, colon - 1)), SubSeq(text, colon + 1, Len(text)))
    ELSE [ok |-> TRUE, protocol |-> toLowerCase(SubSeq(text, 1, colon - 1)) \o <<":">>,
          hostname |-> <<>>, port |-> <<>>,
          pathname |-> SubSeq(text, colon + 1, Len(text)), href |-> text]

parseUrl(text) == schemeAt(text, indexOf(text, ":"))

(***************************************************************************)
(* validateUrl (UrlGuard)                                                  *)
(***************************************************************************)
MsgInvalidUrl == <<"Invalid","URL","format">>

MsgProtocol == <<"Only","HTTP","and","HTTPS","protocols","are","allowed">>

MsgLocalhost == <<"Access","to","localhost","is","not","allowed">>

MsgMetadata == <<"Access","to","metadata","endpoints","is","not","allowed">>

MsgPrivateIp == <<"Access","to","private","IP","addresses","is","not","allowed">>

MsgUnableToResolve == <<"Unable","to","resolve","hostname">>

MsgResolvesPrivate == <<"Domain","resolves","to","a","private","IP","address">>

MsgCheckUrl == <<"Unable","to","resolve","hostname.","Please","check","the","URL.">>

\* What validateUrl returns (ok, url) or throws (error); lookedUp records
\* whether the call got as far as the DNS lookups.
rejected(message) == [ok |-> FALSE, error |-> message, url |-> InvalidUrl, lookedUp |-> FALSE]

accepted(parsedUrl) == [ok |-> TRUE, error |-> <<>>, url |-> parsedUrl, lookedUp |-> TRUE]

\* hostname.replace(/^\[|\]$/g, '')
stripBrackets(hostname) ==
    LET a == IF hostname # <<>> /\ hostname[1] = "[" THEN Tail(hostname) ELSE hostname
    IN  IF a # <<>> /\ a[Len(a)] = "]" THEN SubSeq(a, 1, Len(a) - 1) ELSE a

\* The mutant of C6: only the first resolved address is checked.
firstResolvedPrivate(allAddresses) ==
    allAddresses # <<>> /\ isPrivateIP(allAddresses[1])

\* for (const addr of allAddresses) if (this.isPrivateIP(addr)) throw ...
anyResolvedPrivate(allAddresses) ==
    \E i \in 1..Len(allAddresses) : isPrivateIP(allAddresses[i])

\* The catch around the DNS block: our own errors are re-thrown as they are.
dnsCatch(message) ==
    IF \/ includes(message, <<"not","allowed">>)
       \/ includes(message, <<"private","IP">>)
       \/ includes(message, <<"Unable","to","resolve">>)
    THEN message ELSE MsgCheckUrl

\* dns.resolve4(...).catch(() => []): a rejected lookup counts as no address.
resolved(answer) == IF answer.rejected THEN <<>> ELSE answer.addresses

checkResolved(parsedUrl, allAddresses) ==
    IF Len(allAddresses) = 0
    THEN [rejected(dnsCatch(MsgUnableToResolve)) EXCEPT !.lookedUp = TRUE]
    ELSE IF anyResolvedPrivate(allAddresses)
    THEN [rejected(dnsCatch(MsgResolvesPrivate)) EXCEPT !.lookedUp = TRUE]
    ELSE accepted(parsedUrl)

resolveAndCheck(parsedUrl, answer4, answer6) ==
    checkResolved(parsedUrl, resolved(answer4) \o resolved(answer6))

\* if (!url.startsWith('http://') && !url.startsWith('https://')) url = 'https://' + url
ensureProtocol(url) ==
    IF ~startsWith(url, <<"h","t","t","p",":","/","/">>) /\ ~startsWith(url, <<"h","t","t","p","s",":","/","/">>)
    THEN <<"h","t","t","p","s",":","/","/">> \o url ELSE url

checkHost(parsedUrl, hostname, answer4, answer6) ==
    IF hostname = <<"l","o","c","a","l","h","o","s","t">> THEN rejected(MsgLocalhost)
    ELSE IF includes(hostname, <<"m","e","t","a","d","a","t","a">>) THEN rejected(MsgMetadata)
    ELSE IF /\ (isPrivateIP(hostname) \/ includes(hostname, <<":">>))
            /\ isPrivateIP(stripBrackets(hostname))
    THEN rejected(MsgPrivateIp)
    ELSE resolveAndCheck(parsedUrl, answer4, answer6)

checkParsed(parsedUrl, answer4, answer6) ==
    IF ~parsedUrl.ok THEN rejected(MsgInvalidUrl)
    ELSE IF parsedUrl.protocol # <<"h","t","t","p",":">> /\ parsedUrl.protocol # <<"h","t","t","p","s",":">>
    THEN rejected(MsgProtocol)
    ELSE checkHost(parsedUrl, toLowerCase(parsedUrl.hostname), answer4, answer6)

validateUrl(url, answer4, answer6) ==
    checkParsed(parseUrl(ensureProtocol(url)), answer4, answer6)


(***************************************************************************)
(* One call of scrapeWebsite or fetchPageHtml, up to the response status:  *)
(* validateUrl, then fetch(validatedUrl.href, {redirect: 'manual'}).       *)
(***************************************************************************)
MsgScrapeRedirect == <<"Website","redirects","are","not","supported.","Please","provide","the","final","URL.">>

MsgHtmlRedirect == <<"Redirects","not","supported">>

\* String(response.status)
statusText(status) ==
    CASE status = 200 -> "200" [] status = 204 -> "204" [] status = 301 -> "301"
      [] status = 302 -> "302" [] status = 307 -> "307" [] status = 404 -> "404"
      [] status = 500 -> "500"

MsgScrapeHttp(status) == <<"Failed","to","fetch","website:","HTTP">> \o <<statusText(status)>>

MsgHtmlHttp(status) == <<"HTTP", statusText(status)>>

MsgTimedOut == <<"Website","request","timed","out">>

MsgUnableToAccess == <<"Unable","to","access","the","website.","Please","check","the","URL","and","try","again.">>

\* The mutant of C5: fetch left to follow redirects.
redirectOptionFollow == "follow"

\* redirect: 'manual'
redirectOption == "manual"

\* The requests fetch() issues after a response: with redirect 'follow' a 3xx
\* response is followed to its Location, with 'manual' it is handed back.
followUps(option, status, location) ==
    IF option = "follow" /\ status >= 300 /\ status < 400 THEN <<location>> ELSE <<>>

\* The catch of scrapeWebsite: only messages with 'not allowed' or
\* 'Invalid URL' pass; every other error becomes the generic message.
scrapeCatch(message) ==
    IF includes(message, <<"not","allowed">>) \/ includes(message, <<"Invalid","URL">>)
    THEN message ELSE MsgUnableToAccess

\* What the call throws once the response status is known, or <<>>.
statusError(kind, status) ==
    IF status >= 300 /\ status < 400
    THEN (IF kind = "scrapeWebsite" THEN scrapeCatch(MsgScrapeRedirect) ELSE MsgHtmlRedirect)
    ELSE IF ~(status >= 200 /\ status <= 299)
    THEN (IF kind = "scrapeWebsite" THEN scrapeCatch(MsgScrapeHttp(status)) ELSE MsgHtmlHttp(status))
    ELSE <<>>


(***************************************************************************)
(* DatabaseStorage: the website_analysis and analyzed_pages tables         *)
(***************************************************************************)
\* The tenants (business accounts).
Tenants == {"A", "B"}

\* JSON.stringify and JSON.parse of a profile: the text is a one-element
\* sequence holding the value it encodes, and <<>> is no text (null).
JSONstringify(value) == <<value>>

JSONparse(text) == text[1]

\* A website_analysis row; exists is FALSE where the tenant has no row.  The
\* nullable columns are null (<<>>, "null") after an insert that gives none.
NoRow ==
    [exists |-> FALSE, websiteUrl |-> <<>>, status |-> "none", analyzedContent |-> <<>>,
     errorMessage |-> <<>>, lastAnalyzedAt |-> "null"]

getWebsiteAnalysis(table, businessAccountId) == table[businessAccountId]

\* The UPDATE of upsertWebsiteAnalysis: the columns analysisData gives are
\* set, the others are kept.
updatedRow(row, analysisData) ==
    [column \in DOMAIN row |->
        IF column \in DOMAIN analysisData THEN analysisData[column] ELSE row[column]]

\* The INSERT of upsertWebsiteAnalysis.
insertedRow(analysisData) ==
    updatedRow([NoRow EXCEPT !.exists = TRUE, !.status = "pending"], analysisData)

\* The write of upsertWebsiteAnalysis, after its getWebsiteAnalysis returned
\* existing: an UPDATE (of no row when the row has gone since), or an INSERT,
\* which the unique business_account_id makes throw when a row has appeared
\* since.
upsertWebsiteAnalysis(table, businessAccountId, existing, analysisData) ==
    IF existing
    THEN [threw |-> FALSE,
          table |-> IF table[businessAccountId].exists
                    THEN [table EXCEPT ![businessAccountId] = updatedRow(@, analysisData)]
                    ELSE table]
    ELSE IF table[businessAccountId].exists
    THEN [threw |-> TRUE, table |-> table]
    ELSE [threw |-> FALSE,
          table |-> [table EXCEPT ![businessAccountId] = insertedRow(analysisData)]]

\* The mutant of C29: a status write that drops the profile of a failed run.
updateWebsiteAnalysisStatusClearing(table, businessAccountId, status, errorMessage) ==
    IF table[businessAccountId].exists
    THEN [table EXCEPT ![businessAccountId] =
            [@ EXCEPT !.status = status,
                      !.errorMessage = errorMessage,
                      !.analyzedContent = IF status = "failed" THEN <<>> ELSE @,
                      !.lastAnalyzedAt = IF status = "completed" THEN "now" ELSE "null"]]
    ELSE table

updateWebsiteAnalysisStatus(table, businessAccountId, status, errorMessage) ==
    IF table[businessAccountId].exists
    THEN [table EXCEPT ![businessAccountId] =
            [@ EXCEPT !.status = status,
                      !.errorMessage = errorMessage,
                      !.lastAnalyzedAt = IF status = "completed" THEN "now" ELSE "null"]]
    ELSE table

createAnalyzedPage(table, businessAccountId, pageUrl) ==
    [table EXCEPT ![businessAccountId] = Append(@, pageUrl)]

\* What GET /api/website-analysis reports as the status of a tenant.
storedStatus(businessAccountId) ==
    IF websiteAnalysis[businessAccountId].exists
    THEN websiteAnalysis[businessAccountId].status
    ELSE "not_started"

deleteWebsiteAnalysis(table, businessAccountId) ==
    [table EXCEPT ![businessAccountId] = NoRow]

\* The mutant of C26: a DELETE without its where clause.
deleteAnalyzedPagesOfAll(table, businessAccountId) ==
    [t \in DOMAIN table |-> <<>>]

deleteAnalyzedPages(table, businessAccountId) ==
    [table EXCEPT ![businessAccountId] = <<>>]

\* WebsiteAnalysisService.getAnalyzedContent: the parsed profile in a
\* one-element sequence, or <<>> (null).
getAnalyzedContent(businessAccountId) ==
    IF ~getWebsiteAnalysis(websiteAnalysis, businessAccountId).exists
         \/ getWebsiteAnalysis(websiteAnalysis, businessAccountId).analyzedContent = <<>>
    THEN <<>>
    ELSE <<JSONparse(getWebsiteAnalysis(websiteAnalysis, businessAccountId).analyzedContent)>>

(***************************************************************************)
(* POST /api/website-analysis and the runs of WebsiteAnalysisService       *)
(***************************************************************************)
\* The list fields of AnalyzedWebsiteContent, each modelled as the set of its
\* elements; the scalar fields are left out.
ListFields == {"mainProducts", "mainServices", "keyFeatures", "uniqueSellingPoints"}

EmptyProfile == [field \in ListFields |-> {}]

HomeUrl == <<"h","t","t","p","s",":","/","/","a",".","c","o","m","/">>

AboutUrl == <<"h","t","t","p","s",":","/","/","A",".","c","o","m","/","A","b","o","u","t">>

OtherSiteUrl == <<"h","t","t","p","s",":","/","/","b",".","c","o","m","/">>

\* What the Synthesizer extracts from the text of one page.
extracted(pageUrl) ==
    IF pageUrl = HomeUrl
    THEN [EmptyProfile EXCEPT !.mainProducts = {"widget"}, !.mainServices = {"repair"}]
    ELSE [EmptyProfile EXCEPT !.mainProducts = {"gadget"}, !.keyFeatures = {"fast"},
                              !.uniqueSellingPoints = {"cheap"}]

combined(left, right) == [field \in ListFields |-> left[field] \cup right[field]]

\* analyzeWithOpenAI on the combined content (the pages scraped, in order).
RECURSIVE analyzeWithOpenAI(_)
analyzeWithOpenAI(combinedContent) ==
    IF combinedContent = <<>> THEN EmptyProfile
    ELSE combined(extracted(Head(combinedContent)), analyzeWithOpenAI(Tail(combinedContent)))

\* mergeAnalysisData: the prompt asks for ALL items of both old and new data.
mergeAnalysisData(existingData, combinedContent) ==
    combined(existingData, analyzeWithOpenAI(combinedContent))

MsgFailedToScrape == <<"Failed","to","scrape","any","pages">>

MsgEmptyResponse == <<"OpenAI","returned","empty","response">>

MsgJsonParse == <<"Unexpected","token","<","in","JSON","at","position","0">>

MsgOpenAIClient == <<"401","Incorrect","API","key","provided">>

\* url.toLowerCase().replace(/\/$/, '')
normalized(url) ==
    IF url # <<>> /\ url[Len(url)] = "/"
    THEN SubSeq(toLowerCase(url), 1, Len(url) - 1)
    ELSE toLowerCase(url)

\* Array.from(new Set(pageUrls.map(normalized))): first occurrences, in order.
RECURSIVE uniqueAfter(_, _)
uniqueAfter(pageUrls, seen) ==
    IF pageUrls = <<>> THEN <<>>
    ELSE IF normalized(Head(pageUrls)) \in seen THEN uniqueAfter(Tail(pageUrls), seen)
    ELSE <<normalized(Head(pageUrls))>>
            \o uniqueAfter(Tail(pageUrls), seen \cup {normalized(Head(pageUrls))})

uniquePages(pageUrls) == uniqueAfter(pageUrls, {})

\* The request bodies and caller arguments considered.
WebsiteUrls == {<<>>, HomeUrl, <<"a",".","c","o","m">>}

AdditionalPages == {<<>>, <<AboutUrl>>, <<OtherSiteUrl>>}

DiscoveredPages == {<<>>, <<<<"h","t","t","p","s",":","/","/","a",".","c","o","m","/","a","b","o","u","t">>>>}

pagesToAnalyze(websiteUrl, additionalPages, analyzeOnlyAdditional) ==
    IF analyzeOnlyAdditional THEN additionalPages ELSE <<websiteUrl>> \o additionalPages

\* The same-domain check of the route: new URL() of the website URL and of
\* every page, and equal hostnames.
sameDomain(websiteUrl, pages) ==
    /\ parseUrl(websiteUrl).ok
    /\ \A i \in 1..Len(pages) :
          /\ parseUrl(pages[i]).ok
          /\ parseUrl(pages[i]).hostname = parseUrl(websiteUrl).hostname

\* The status of the early return of the route, 0 where it goes on.
postRejection(websiteUrl, additionalPages, analyzeOnlyAdditional, hasApiKey) ==
    IF websiteUrl = <<>> THEN 400
    ELSE IF analyzeOnlyAdditional /\ Len(additionalPages) = 0 THEN 400
    ELSE IF ~sameDomain(websiteUrl,
                        pagesToAnalyze(websiteUrl, additionalPages, analyzeOnlyAdditional))
    THEN 400
    ELSE IF ~hasApiKey THEN 400
    ELSE 0

shouldAppend(additionalPages, analyzeOnlyAdditional) ==
    analyzeOnlyAdditional \/ Len(additionalPages) > 0

\* The requests of a behaviour, each with the run it starts.
MaxRuns == 2

RunIds == 1..MaxRuns

\* A request not yet made.  Once made: kind is "pages" (analyzeWebsitePages,
\* started by the POST route) or "site" (analyzeWebsite); existing is what the
\* getWebsiteAnalysis of upsertWebsiteAnalysis returned; statusWritten is the
\* last status the run wrote, persisted the analyzedContent it upserted, and
\* overlaps whether a run of the same tenant was under way when it started;
\* attempted are the URLs scrapeWebsite was called with, synthesizerCalls the
\* Synthesizer methods called and saved the page URLs createAnalyzedPage
\* stored, each in the order of the calls.
IdleRun ==
    [pc |-> "idle", kind |-> "none", httpStatus |-> 0, businessAccountId |-> "none",
     websiteUrl |-> <<>>, pageUrls |-> <<>>, appendMode |-> FALSE, next |-> 0,
     combinedContent |-> <<>>, existingData |-> <<>>, analyzedContent |-> <<>>,
     existing |-> FALSE, errorMessage |-> <<>>, statusWritten |-> "none",
     persisted |-> <<>>, overlaps |-> FALSE, uniquePages |-> <<>>,
     attempted |-> <<>>, synthesizerCalls |-> <<>>, saved |-> <<>>]

RunIdle ==
    /\ websiteAnalysis = [t \in Tenants |-> NoRow]
    /\ analyzedPages = [t \in Tenants |-> <<>>]
    /\ runs = [r \in RunIds |-> IdleRun]
    /\ finished = <<>>
    /\ onlyAppend = [t \in Tenants |-> TRUE]

terminated(r) == runs[r].pc \in {"done", "responded"}

\* The tenants that have no request or run under way.
QuietTenants ==
    {t \in Tenants :
        \A r \in RunIds : runs[r].businessAccountId = t => terminated(r)}

\* The run r goes to position pc with the locals given.
goes(r, changed) == runs' = [runs EXCEPT ![r] = changed]

\* What the route makes of a request body: the status of its early return
\* (0: none) and, where it goes on, the arguments of the run it will start.
handled(websiteUrl, additionalPages, analyzeOnlyAdditional, hasApiKey) ==
    IF postRejection(websiteUrl, additionalPages, analyzeOnlyAdditional, hasApiKey) # 0
    THEN [rejection |-> postRejection(websiteUrl, additionalPages, analyzeOnlyAdditional,
                                      hasApiKey),
          websiteUrl |-> <<>>, pageUrls |-> <<>>, appendMode |-> FALSE]
    ELSE [rejection |-> 0,
          websiteUrl |-> websiteUrl,
          pageUrls |-> pagesToAnalyze(websiteUrl, additionalPages, analyzeOnlyAdditional),
          appendMode |-> shouldAppend(additionalPages, analyzeOnlyAdditional)]

\* The request bodies considered, as the route handles them.
HandledRequests ==
    {handled(websiteUrl, additionalPages, analyzeOnlyAdditional, hasApiKey) :
        websiteUrl \in WebsiteUrls, additionalPages \in AdditionalPages,
        analyzeOnlyAdditional \in BOOLEAN, hasApiKey \in BOOLEAN}

\* POST /api/website-analysis up to the getWebsiteAnalysis of its upsert, for
\* a tenant among callers: the route responds 400, or goes on to its upsert.
Post(r, callers) ==
    /\ runs[r].pc = "idle"
    /\ \A q \in RunIds : q < r => runs[q].pc # "idle"
    /\ \E t \in callers, request \in HandledRequests :
          IF request.rejection # 0
          THEN goes(r, [IdleRun EXCEPT !.pc = "responded", !.businessAccountId = t,
                                       !.httpStatus = request.rejection])
          ELSE goes(r, [IdleRun EXCEPT
                           !.pc = "postUpsert", !.kind = "pages", !.businessAccountId = t,
                           !.websiteUrl = request.websiteUrl,
                           !.pageUrls = request.pageUrls,
                           !.appendMode = request.appendMode,
                           !.overlaps = t \notin QuietTenants,
                           !.existing = getWebsiteAnalysis(websiteAnalysis, t).exists])
    /\ UNCHANGED <<websiteAnalysis, analyzedPages, finished, onlyAppend, ipVars, urlVars, fetchVars, linkVars>>

\* The write of the route's upsert (status pending); then the run is started
\* and the route responds, or the write threw and the route responds 500.
postUpserted(r, written) ==
    /\ websiteAnalysis' = written.table
    /\ IF written.threw
       THEN /\ goes(r, [runs[r] EXCEPT !.pc = "responded", !.httpStatus = 500])
            /\ UNCHANGED onlyAppend
       ELSE /\ goes(r, [runs[r] EXCEPT !.pc = "setAnalyzing", !.httpStatus = 200])
            /\ onlyAppend' = [onlyAppend EXCEPT
                                ![runs[r].businessAccountId] = @ /\ runs[r].appendMode]

PostUpsert(r) ==
    /\ runs[r].pc = "postUpsert"
    /\ postUpserted(r, upsertWebsiteAnalysis(websiteAnalysis, runs[r].businessAccountId,
                                             runs[r].existing,
                                             [websiteUrl |-> runs[r].websiteUrl,
                                              status |-> "pending"]))
    /\ UNCHANGED <<analyzedPages, finished, ipVars, urlVars, fetchVars, linkVars>>

\* What the catch block is entered with.
caught(run, message) == [run EXCEPT !.pc = "catch", !.errorMessage = message]

\* The messages scrapeWebsite and fetchPageHtml throw with.
ScrapeErrors == {MsgTimedOut, MsgUnableToAccess, MsgPrivateIp}

FetchHtmlErrors == {MsgHtmlRedirect, MsgHtmlHttp(404)}

\* The mutant of C17: a run that goes on with nothing scraped.
afterScrapingUnchecked(run) ==
    IF run.kind = "pages" /\ run.appendMode THEN [run EXCEPT !.pc = "getExisting"]
    ELSE [run EXCEPT !.pc = "synthesize"]

\* Where a run goes after its scrape loop: analyzeWebsitePages throws when
\* nothing was scraped and reads the stored analysis in append mode.
afterScraping(run) ==
    IF run.kind = "pages" /\ run.combinedContent = <<>> THEN caught(run, MsgFailedToScrape)
    ELSE IF run.kind = "pages" /\ run.appendMode THEN [run EXCEPT !.pc = "getExisting"]
    ELSE [run EXCEPT !.pc = "synthesize"]

afterPage(run) ==
    IF run.next > Len(run.pageUrls) THEN afterScraping(run) ELSE run

\* A caller starts analyzeWebsite (the route does not).
StartAnalyzeWebsite(r) ==
    /\ runs[r].pc = "idle"
    /\ \A q \in RunIds : q < r => runs[q].pc # "idle"
    /\ \E t \in Tenants :
          goes(r, [IdleRun EXCEPT !.pc = "setAnalyzing", !.kind = "site",
                       !.businessAccountId = t, !.websiteUrl = HomeUrl,
                       !.overlaps = t \notin QuietTenants,
                       !.pageUrls = <<HomeUrl>>])
    /\ onlyAppend' = [t \in Tenants |-> onlyAppend[t] /\ runs'[r].businessAccountId # t]
    /\ UNCHANGED <<websiteAnalysis, analyzedPages, finished, ipVars, urlVars, fetchVars, linkVars>>

\* A caller starts analyzeWebsitePages with an empty list of pages (the route
\* never does: its list holds the website URL or the additional pages).
StartAnalyzeWebsitePages(r) ==
    /\ runs[r].pc = "idle"
    /\ \A q \in RunIds : q < r => runs[q].pc # "idle"
    /\ \E t \in Tenants, appendMode \in BOOLEAN :
          /\ goes(r, [IdleRun EXCEPT !.pc = "setAnalyzing", !.kind = "pages",
                          !.businessAccountId = t, !.appendMode = appendMode,
                          !.overlaps = t \notin QuietTenants])
          /\ onlyAppend' = [onlyAppend EXCEPT ![t] = @ /\ appendMode]
    /\ UNCHANGED <<websiteAnalysis, analyzedPages, finished, ipVars, urlVars, fetchVars, linkVars>>

\* Where a run starts once it has written 'analyzing': analyzeWebsite at its
\* homepage scrape, analyzeWebsitePages at its scrape loop.
started(run) ==
    IF run.kind = "site" THEN [run EXCEPT !.pc = "scrapeHomepage", !.next = 1]
    ELSE afterPage([run EXCEPT !.pc = "scrape", !.next = 1])

\* The mutant of C1: a run that starts scraping without writing 'analyzing'.
SetAnalyzingUnwritten(r) ==
    /\ runs[r].pc = "setAnalyzing"
    /\ goes(r, started(runs[r]))
    /\ UNCHANGED <<websiteAnalysis, analyzedPages, finished, onlyAppend, ipVars, urlVars, fetchVars, linkVars>>

\* updateWebsiteAnalysisStatus(businessAccountId, 'analyzing')
SetAnalyzing(r) ==
    /\ runs[r].pc = "setAnalyzing"
    /\ websiteAnalysis' = updateWebsiteAnalysisStatus(websiteAnalysis,
                              runs[r].businessAccountId, "analyzing", <<>>)
    /\ goes(r, started([runs[r] EXCEPT !.statusWritten = "analyzing"]))
    /\ UNCHANGED <<analyzedPages, finished, onlyAppend, ipVars, urlVars, fetchVars, linkVars>>

\* analyzeWebsite, step 1: the homepage scrape, whose failure ends the run.
ScrapeHomepage(r) ==
    /\ runs[r].pc = "scrapeHomepage"
    /\ \/ goes(r, [runs[r] EXCEPT !.pc = "fetchPageHtml", !.next = 2,
                                  !.attempted = <<runs[r].websiteUrl>>,
                                  !.combinedContent = <<runs[r].websiteUrl>>])
       \/ \E message \in ScrapeErrors :
            goes(r, caught([runs[r] EXCEPT !.attempted = <<runs[r].websiteUrl>>], message))
    /\ UNCHANGED <<websiteAnalysis, analyzedPages, finished, onlyAppend, ipVars, urlVars, fetchVars, linkVars>>

\* analyzeWebsite, step 2: fetchPageHtml and findImportantPages.
FetchPageHtml(r) ==
    /\ runs[r].pc = "fetchPageHtml"
    /\ \/ \E additionalPages \in DiscoveredPages :
            goes(r, afterPage([runs[r] EXCEPT !.pc = "scrape",
                                  !.pageUrls = <<runs[r].websiteUrl>> \o additionalPages]))
       \/ \E message \in FetchHtmlErrors : goes(r, caught(runs[r], message))
    /\ UNCHANGED <<websiteAnalysis, analyzedPages, finished, onlyAppend, ipVars, urlVars, fetchVars, linkVars>>

\* The mutant of C20: a scrape loop that ends the run at the first page that
\* fails.
ScrapePageFailFast(r) ==
    /\ runs[r].pc = "scrape"
    /\ \/ goes(r, afterPage([runs[r] EXCEPT
                      !.next = @ + 1,
                      !.attempted = Append(@, runs[r].pageUrls[runs[r].next]),
                      !.combinedContent = Append(@, runs[r].pageUrls[runs[r].next])]))
       \/ goes(r, caught([runs[r] EXCEPT
                      !.next = @ + 1,
                      !.attempted = Append(@, runs[r].pageUrls[runs[r].next])],
                   MsgUnableToAccess))
    /\ UNCHANGED <<websiteAnalysis, analyzedPages, finished, onlyAppend, ipVars, urlVars, fetchVars, linkVars>>

\* One turn of a scrape loop: the page is added to the content, or its error
\* is logged and the loop goes on.
scrapeTurn(run, scraped) ==
    afterPage([run EXCEPT
                  !.next = @ + 1,
                  !.attempted = Append(@, run.pageUrls[run.next]),
                  !.combinedContent = IF scraped THEN Append(@, run.pageUrls[run.next])
                                      ELSE @])

ScrapePage(r) ==
    /\ runs[r].pc = "scrape"
    /\ \E scraped \in BOOLEAN : goes(r, scrapeTurn(runs[r], scraped))
    /\ UNCHANGED <<websiteAnalysis, analyzedPages, finished, onlyAppend, ipVars, urlVars, fetchVars, linkVars>>

\* The mutant of C18: an append run that never finds existing data.
existingDataOfNone(analysis) == <<>>

\* analyzeWebsitePages, step 2: the existing analysis, in append mode.
existingDataOf(analysis) ==
    IF analysis.exists /\ analysis.analyzedContent # <<>>
    THEN <<JSONparse(analysis.analyzedContent)>>
    ELSE <<>>

GetExisting(r) ==
    /\ runs[r].pc = "getExisting"
    /\ goes(r, [runs[r] EXCEPT
                   !.pc = "synthesize",
                   !.existingData = existingDataOf(getWebsiteAnalysis(websiteAnalysis,
                                                       runs[r].businessAccountId))])
    /\ UNCHANGED <<websiteAnalysis, analyzedPages, finished, onlyAppend, ipVars, urlVars, fetchVars, linkVars>>

\* What the Synthesizer call of a run returns: a merge with the existing
\* data when there is one, an analysis of the new content otherwise.
synthesizerCall(run) ==
    IF run.existingData # <<>> /\ run.appendMode
    THEN "mergeAnalysisData" ELSE "analyzeWithOpenAI"

synthesized(run) ==
    IF synthesizerCall(run) = "mergeAnalysisData"
    THEN mergeAnalysisData(run.existingData[1], run.combinedContent)
    ELSE analyzeWithOpenAI(run.combinedContent)

SynthesizerErrors == {MsgOpenAIClient, MsgEmptyResponse, MsgJsonParse}

\* Step 3, and the getWebsiteAnalysis that opens the upsert of step 4.
Synthesize(r) ==
    /\ runs[r].pc = "synthesize"
    /\ \/ goes(r, [runs[r] EXCEPT
                      !.pc = "upsert",
                      !.synthesizerCalls = Append(@, synthesizerCall(runs[r])),
                      !.analyzedContent = JSONstringify(synthesized(runs[r])),
                      !.existing = getWebsiteAnalysis(websiteAnalysis,
                                                      runs[r].businessAccountId).exists])
       \/ \E message \in SynthesizerErrors :
            goes(r, caught([runs[r] EXCEPT
                               !.synthesizerCalls = Append(@, synthesizerCall(runs[r]))],
                           message))
    /\ UNCHANGED <<websiteAnalysis, analyzedPages, finished, onlyAppend, ipVars, urlVars, fetchVars, linkVars>>

MsgDuplicateKey == <<"duplicate","key","value","violates","unique","constraint">>

\* Step 4: the write of the upsert (websiteUrl, status completed, content).
upserted(r, written) ==
    /\ websiteAnalysis' = written.table
    /\ IF written.threw
       THEN goes(r, caught(runs[r], MsgDuplicateKey))
       ELSE goes(r, [runs[r] EXCEPT !.pc = "savePages", !.next = 1,
                                    !.uniquePages = uniquePages(runs[r].pageUrls),
                                    !.statusWritten = "completed",
                                    !.persisted = runs[r].analyzedContent])

\* The mutant of C19: the record keeps the website URL of the request.
completedAnalysisOfWebsite(run) ==
    [websiteUrl |-> run.websiteUrl, status |-> "completed",
     analyzedContent |-> run.analyzedContent]

\* What step 4 upserts: websiteUrl: pageUrls[0]
completedAnalysis(run) ==
    [websiteUrl |-> run.pageUrls[1], status |-> "completed",
     analyzedContent |-> run.analyzedContent]

Upsert(r) ==
    /\ runs[r].pc = "upsert"
    /\ upserted(r, upsertWebsiteAnalysis(websiteAnalysis, runs[r].businessAccountId,
                                         runs[r].existing, completedAnalysis(runs[r])))
    /\ UNCHANGED <<analyzedPages, finished, onlyAppend, ipVars, urlVars, fetchVars, linkVars>>

\* Step 5: one createAnalyzedPage, which may throw and is then logged.
SavePage(r) ==
    /\ runs[r].pc = "savePages"
    /\ \E saved \in BOOLEAN :
          analyzedPages' =
              IF saved
              THEN createAnalyzedPage(analyzedPages, runs[r].businessAccountId,
                                      runs[r].uniquePages[runs[r].next])
              ELSE analyzedPages
    /\ goes(r, [runs[r] EXCEPT
                   !.next = @ + 1,
                   !.saved = @ \o SubSeq(analyzedPages'[runs[r].businessAccountId],
                                         Len(analyzedPages[runs[r].businessAccountId]) + 1,
                                         Len(analyzedPages'[runs[r].businessAccountId])),
                   !.pc = IF runs[r].next = Len(runs[r].uniquePages)
                          THEN "setCompleted" ELSE "savePages"])
    /\ UNCHANGED <<websiteAnalysis, finished, onlyAppend, ipVars, urlVars, fetchVars, linkVars>>

\* updateWebsiteAnalysisStatus(businessAccountId, 'completed'); the run ends.
SetCompleted(r) ==
    /\ runs[r].pc = "setCompleted"
    /\ websiteAnalysis' = updateWebsiteAnalysisStatus(websiteAnalysis,
                              runs[r].businessAccountId, "completed", <<>>)
    /\ goes(r, [runs[r] EXCEPT !.pc = "done", !.statusWritten = "completed"])
    /\ finished' = Append(finished, r)
    /\ UNCHANGED <<analyzedPages, onlyAppend, ipVars, urlVars, fetchVars, linkVars>>

\* The mutant of C2: a catch block that rethrows without writing 'failed'.
CatchUnwritten(r) ==
    /\ runs[r].pc = "catch"
    /\ goes(r, [runs[r] EXCEPT !.pc = "done"])
    /\ finished' = Append(finished, r)
    /\ UNCHANGED <<websiteAnalysis, analyzedPages, onlyAppend, ipVars, urlVars, fetchVars, linkVars>>

\* The catch block: updateWebsiteAnalysisStatus(businessAccountId, 'failed',
\* error.message); the run ends (its rejection is logged by the route).
Catch(r) ==
    /\ runs[r].pc = "catch"
    /\ websiteAnalysis' = updateWebsiteAnalysisStatus(websiteAnalysis,
                              runs[r].businessAccountId, "failed", runs[r].errorMessage)
    /\ goes(r, [runs[r] EXCEPT !.pc = "done", !.statusWritten = "failed"])
    /\ finished' = Append(finished, r)
    /\ UNCHANGED <<analyzedPages, onlyAppend, ipVars, urlVars, fetchVars, linkVars>>

\* A step of a run of analyzeWebsitePages after its request.
PagesStep(r) ==
    \/ PostUpsert(r)
    \/ SetAnalyzing(r)
    \/ ScrapePage(r)
    \/ GetExisting(r)
    \/ Synthesize(r)
    \/ Upsert(r)
    \/ SavePage(r)
    \/ SetCompleted(r)
    \/ Catch(r)

\* A step of a run of either kind.
RunStep(r) ==
    \/ PagesStep(r)
    \/ ScrapeHomepage(r)
    \/ FetchPageHtml(r)

(***************************************************************************)
(* The idle values a specification leaves the other groups at              *)
(***************************************************************************)
IpIdle ==
    /\ ipSrc = [kind |-> "idle"]
    /\ ip = <<>>
    /\ ipResult = [called |-> FALSE, value |-> FALSE]

NoAnswer == [rejected |-> TRUE, addresses |-> <<>>]

UrlIdle ==
    /\ callKind = "idle"
    /\ callUrl = <<>>
    /\ callPc = "idle"
    /\ dns = [a |-> NoAnswer, aaaa |-> NoAnswer]
    /\ validated = rejected(<<>>)
    /\ requests = <<>>
    /\ response = 0
    /\ callError = <<>>


NoResponse == [status |-> 0, contentType |-> "none", contentLength |-> -1, chunks |-> <<>>]

FetchIdle ==
    /\ fetchKind = "idle"
    /\ fetchPc = "idle"
    /\ timer = "none"
    /\ deadlinePassed = FALSE
    /\ served = NoResponse
    /\ remaining = <<>>
    /\ totalSize = 0
    /\ buffered = 0
    /\ consumed = 0
    /\ fetchCause = <<>>
    /\ fetchError = <<>>
    /\ returnedLength = 0

LinkIdle ==
    /\ baseUrl = <<>>
    /\ links = <<>>
    /\ importantPages = <<>>
    /\ linkPc = "idle"
    /\ returnedPages = <<>>

(***************************************************************************)
(* UrlSpec: the calls of scrapeWebsite and fetchPageHtml considered        *)
(***************************************************************************)
UrlPrefixes == {<<>>, <<"h","t","t","p",":","/","/">>, <<"h","t","t","p","s",":","/","/">>, <<"f","t","p",":","/","/">>}

UrlHosts ==
    { <<"l","o","c","a","l","h","o","s","t">>, <<"L","o","c","a","l","H","o","s","t">>, <<"e","x","a","m","p","l","e",".","c","o","m">>, <<"e","x","a","m","p","l","e",".","c","o","m",":","8","0","8","0">>,
      <<"m","e","t","a","d","a","t","a",".","g","o","o","g","l","e",".","i","n","t","e","r","n","a","l">>, <<"x","m","e","t","a","d","a","t","a",".","i","o">>,
      <<"f","d",".","i","o">>, <<"f","c","2",".","c","o","m">>, <<"f","f","m","p","e","g",".","o","r","g">>, <<"f","e","e","d",".","e","x","a","m","p","l","e",".","c","o","m">>,
      <<"1","0",".","0",".","0",".","1">>, <<"8",".","8",".","8",".","8">>, <<"1","2","7",".","1">>, <<"0","x","7","f",".","0",".","0",".","1">>, <<"2","5","6",".","1",".","1",".","1">>,
      <<"[",":",":","1","]">>, <<"[","f","e","9","0",":",":","1","]">>, <<"[","2","0","0","1",":","d","b","8",":",":","1","]">>,
      <<"n","o","t"," ","a"," ","u","r","l">> }

UrlPaths == {<<>>, <<"/","x">>}

UrlInputs == {p \o h \o q : p \in UrlPrefixes, h \in UrlHosts, q \in UrlPaths}

Public4a == <<"9","3",".","1","8","4",".","2","1","6",".","3","4">>

Public4b == <<"8",".","8",".","8",".","8">>

Private4 == <<"1","2","7",".","0",".","0",".","1">>

Public6 == <<"2","6","0","6",":","4","7","0","0",":",":","1","1","1","1">>

Private6 == <<"f","d","0","0",":",":","1">>

Answers4 ==
    { NoAnswer }
    \cup { [rejected |-> FALSE, addresses |-> a] :
             a \in { <<Public4a>>, <<Public4a, Public4b>>, <<Private4>>,
                     <<Private4, Public4a>>, <<Public4a, Private4>>,
                     <<Public4a, Public4b, Private4>> } }

Answers6 ==
    { NoAnswer }
    \cup { [rejected |-> FALSE, addresses |-> a] :
             a \in { <<Public6>>, <<Private6>>, <<Public6, Private6>> } }

Statuses == {200, 204, 301, 302, 307, 404, 500}

RedirectTargets == { <<"h","t","t","p",":","/","/","1","6","9",".","2","5","4",".","1","6","9",".","2","5","4","/","l","a","t","e","s","t","/">>, <<"h","t","t","p","s",":","/","/","e","x","a","m","p","l","e",".","c","o","m","/">> }

UrlInit ==
    /\ callKind \in {"scrapeWebsite", "fetchPageHtml"}
    /\ callUrl \in UrlInputs
    /\ callPc = "validate"
    /\ dns = [a |-> NoAnswer, aaaa |-> NoAnswer]
    /\ validated = rejected(<<>>)
    /\ requests = <<>>
    /\ response = 0
    /\ callError = <<>>

\* const validatedUrl = await this.validateUrl(url): outside the try block, so
\* a rejection leaves the call as it is thrown.
Validate ==
    /\ callPc = "validate"
    /\ \E answer4 \in Answers4, answer6 \in Answers6 :
         /\ dns' = [a |-> answer4, aaaa |-> answer6]
         /\ validated' = validateUrl(callUrl, answer4, answer6)
    /\ callPc' = IF validated'.ok THEN "fetch" ELSE "thrown"
    /\ callError' = validated'.error
    /\ UNCHANGED <<callKind, callUrl, requests, response, ipVars, runVars, fetchVars, linkVars>>

\* await fetch(validatedUrl.href, {..., redirect: 'manual'}): the request goes
\* out and the server answers.
Fetch ==
    /\ callPc = "fetch"
    /\ \E status \in Statuses, location \in RedirectTargets :
         /\ response' = status
         /\ requests' = requests \o <<validated.url.href>>
                           \o followUps(redirectOption, status, location)
         /\ callError' = statusError(callKind, status)
         /\ callPc' = IF statusError(callKind, status) # <<>> THEN "thrown" ELSE "body"
    /\ UNCHANGED <<callKind, callUrl, dns, validated, ipVars, runVars, fetchVars, linkVars>>

UrlNext == Validate \/ Fetch

UrlSpecInit == UrlInit /\ IpIdle /\ RunIdle /\ FetchIdle /\ LinkIdle

UrlSpec == UrlSpecInit /\ [][UrlNext]_vars

(***************************************************************************)
(* BodySpec: one call of scrapeWebsite or fetchPageHtml after validateUrl  *)
(* accepted the URL: the abort timer, the response headers and the reading *)
(* of the response body.  Sizes are byte counts; a body is the sequence of *)
(* the sizes of the chunks the server streams.                             *)
(***************************************************************************)
FetchKinds == {"scrapeWebsite", "fetchPageHtml"}

\* const MAX_SIZE = 5 * 1024 * 1024
MAX_SIZE == 5 * 1024 * 1024

\* html.substring(0, 500000)
HtmlLimit == 500000

\* .substring(0, 25000)
ContentLimit == 25000

\* The longest body, in chunks, a server streams.
MaxChunks == 3

ChunkSizes == {1, 600000, MAX_SIZE - 1, MAX_SIZE}

Bodies == UNION {[1..n -> ChunkSizes] : n \in 0..MaxChunks}

\* -1: the response has no Content-Length header.
ContentLengths == {-1, 100, MAX_SIZE, MAX_SIZE + 1}

ContentTypes == {"none", "text/html", "application/json"}

BodyStatuses == {200, 204, 301, 404}

\* A 204 response has a null body.
Responses ==
    {answer \in [status : BodyStatuses, contentType : ContentTypes,
                 contentLength : ContentLengths, chunks : Bodies] :
        answer.status = 204 => answer.chunks = <<>>}

RECURSIVE byteLength(_)
byteLength(chunks) ==
    IF chunks = <<>> THEN 0 ELSE Head(chunks) + byteLength(Tail(chunks))

substringLength(length, end) == IF length < end THEN length ELSE end

\* The rejection of fetch() when controller.abort() ran, by its name.
AbortError == <<"AbortError">>

\* The rejection of fetch() on a network failure.
FetchFailed == <<"fetch","failed">>

MsgNotHtml == <<"Website","did","not","return","HTML","content">>

MsgTooLarge == <<"Website","content","is","too","large">>

MsgHtmlTooLarge == <<"Content","too","large">>

MsgNoBody == <<"Response","body","is","not","available">>

MsgExceeded == <<"Website","content","exceeded","size","limit","during","download">>

\* What the try block throws once the response headers are there, or <<>>.
headerCause(kind, answer) ==
    IF answer.status >= 300 /\ answer.status < 400
    THEN (IF kind = "scrapeWebsite" THEN MsgScrapeRedirect ELSE MsgHtmlRedirect)
    ELSE IF ~(answer.status >= 200 /\ answer.status <= 299)
    THEN (IF kind = "scrapeWebsite" THEN MsgScrapeHttp(answer.status)
          ELSE MsgHtmlHttp(answer.status))
    ELSE IF kind = "scrapeWebsite" /\ answer.contentType # "text/html"
    THEN MsgNotHtml
    ELSE IF answer.contentLength # -1 /\ answer.contentLength > MAX_SIZE
    THEN (IF kind = "scrapeWebsite" THEN MsgTooLarge ELSE MsgHtmlTooLarge)
    ELSE IF kind = "scrapeWebsite" /\ answer.status = 204
    THEN MsgNoBody
    ELSE <<>>

\* The catch blocks: scrapeWebsite turns an AbortError into the timeout
\* message and sanitizes the rest, fetchPageHtml rethrows what it caught.
catchOf(kind, cause) ==
    IF kind = "scrapeWebsite"
    THEN (IF cause = AbortError THEN MsgTimedOut ELSE scrapeCatch(cause))
    ELSE cause

\* The mutant of C11: the chunk is pushed before the size check.
chunksAfterPushFirst(held, size, total) == held + size

\* chunks.push(value) comes after the check of totalSize.
chunksAfter(held, size, total) == IF total > MAX_SIZE THEN held ELSE held + size

BodyInit ==
    /\ fetchKind \in FetchKinds
    /\ fetchPc = "fetching"
    /\ timer = "armed"
    /\ deadlinePassed = FALSE
    /\ served \in Responses
    /\ remaining = served.chunks
    /\ totalSize = 0
    /\ buffered = 0
    /\ consumed = 0
    /\ fetchCause = <<>>
    /\ fetchError = <<>>
    /\ returnedLength = 0

throws(cause) ==
    /\ fetchPc' = "thrown"
    /\ fetchCause' = cause
    /\ fetchError' = catchOf(fetchKind, cause)

\* The timeout of the call elapses.  An armed timer runs controller.abort()
\* and the pending fetch() rejects; a cleared timer does nothing.
TimePasses ==
    /\ fetchPc \in {"fetching", "reading"}
    /\ ~deadlinePassed
    /\ deadlinePassed' = TRUE
    /\ IF timer = "armed"
       THEN timer' = "fired" /\ throws(AbortError)
       ELSE UNCHANGED <<timer, fetchPc, fetchCause, fetchError>>
    /\ UNCHANGED <<fetchKind, served, remaining, totalSize, buffered, consumed,
                   returnedLength, ipVars, urlVars, linkVars, runVars>>

\* fetch() resolves with the response headers: clearTimeout, then the checks.
ReceiveHeaders ==
    /\ fetchPc = "fetching"
    /\ timer' = "cleared"
    /\ IF headerCause(fetchKind, served) # <<>>
       THEN throws(headerCause(fetchKind, served))
       ELSE fetchPc' = "reading" /\ UNCHANGED <<fetchCause, fetchError>>
    /\ UNCHANGED <<fetchKind, deadlinePassed, served, remaining, totalSize, buffered,
                   consumed, returnedLength, ipVars, urlVars, linkVars, runVars>>

\* fetch() rejects with a network error.
FetchFails ==
    /\ fetchPc = "fetching"
    /\ timer' = "cleared"
    /\ throws(FetchFailed)
    /\ UNCHANGED <<fetchKind, deadlinePassed, served, remaining, totalSize, buffered,
                   consumed, returnedLength, ipVars, urlVars, linkVars, runVars>>

\* One turn of the read loop of scrapeWebsite with a chunk.
ReadChunk ==
    /\ fetchKind = "scrapeWebsite"
    /\ fetchPc = "reading"
    /\ remaining # <<>>
    /\ remaining' = Tail(remaining)
    /\ consumed' = consumed + Head(remaining)
    /\ totalSize' = totalSize + Head(remaining)
    /\ buffered' = chunksAfter(buffered, Head(remaining), totalSize')
    /\ IF totalSize' > MAX_SIZE
       THEN throws(MsgExceeded)
       ELSE UNCHANGED <<fetchPc, fetchCause, fetchError>>
    /\ UNCHANGED <<fetchKind, timer, deadlinePassed, served, returnedLength,
                   ipVars, urlVars, linkVars, runVars>>

\* reader.read() reports done: the chunks are decoded, the text is extracted
\* (none of the html or as much as all of it) and cut to ContentLimit.
ReadDone ==
    /\ fetchKind = "scrapeWebsite"
    /\ fetchPc = "reading"
    /\ remaining = <<>>
    /\ fetchPc' = "returned"
    /\ \E fullContent \in {0, buffered} :
         returnedLength' = substringLength(fullContent, ContentLimit)
    /\ UNCHANGED <<fetchKind, timer, deadlinePassed, served, remaining, totalSize,
                   buffered, consumed, fetchCause, fetchError,
                   ipVars, urlVars, linkVars, runVars>>

\* fetchPageHtml: await response.text() reads the body to its end, then the
\* string is cut.
ReadText ==
    /\ fetchKind = "fetchPageHtml"
    /\ fetchPc = "reading"
    /\ remaining' = <<>>
    /\ consumed' = consumed + byteLength(remaining)
    /\ buffered' = buffered + byteLength(remaining)
    /\ returnedLength' = substringLength(buffered', HtmlLimit)
    /\ fetchPc' = "returned"
    /\ UNCHANGED <<fetchKind, timer, deadlinePassed, served, totalSize,
                   fetchCause, fetchError, ipVars, urlVars, linkVars, runVars>>

BodyNext == TimePasses \/ ReceiveHeaders \/ FetchFails \/ ReadChunk \/ ReadDone \/ ReadText

BodySpecInit == BodyInit /\ IpIdle /\ UrlIdle /\ LinkIdle /\ RunIdle

BodySpec == BodySpecInit /\ [][BodyNext]_vars

(***************************************************************************)
(* LinkSpec: one call of findImportantPages.  The homepage HTML is the     *)
(* sequence of the href attributes of its a[href] elements, which the      *)
(* each() callback visits in document order.                               *)
(***************************************************************************)
pageKeywords ==
    <<<<"a","b","o","u","t">>, <<"a","b","o","u","t","-","u","s">>, <<"w","h","o","-","w","e","-","a","r","e">>, <<"o","u","r","-","s","t","o","r","y">>, <<"c","o","m","p","a","n","y">>,
      <<"c","o","n","t","a","c","t">>, <<"c","o","n","t","a","c","t","-","u","s">>, <<"g","e","t","-","i","n","-","t","o","u","c","h">>, <<"r","e","a","c","h","-","u","s">>,
      <<"f","a","q">>, <<"f","a","q","s">>, <<"h","e","l","p">>, <<"s","u","p","p","o","r","t">>,
      <<"s","e","r","v","i","c","e","s">>, <<"w","h","a","t","-","w","e","-","d","o">>,
      <<"p","r","o","d","u","c","t","s">>, <<"s","h","o","p">>, <<"s","t","o","r","e">>>>

\* importantPages.size < 10
SetLimit == 10

\* .slice(0, 5)
SliceEnd == 5

\* url.origin: scheme, host and port of a special URL, "null" otherwise.
origin(url) ==
    IF SubSeq(url.protocol, 1, Len(url.protocol) - 1) \in SpecialSchemes
    THEN url.protocol \o <<"/","/">> \o url.hostname
            \o (IF url.port = <<>> THEN <<>> ELSE <<":">> \o url.port)
    ELSE <<"n","u","l","l">>

\* url.pathname: what follows the authority, up to the query or the fragment.
pathnameOf(url) ==
    SubSeq(url.pathname, 1,
           stopOr({i \in 1..Len(url.pathname) : url.pathname[i] \in {"?", "#"}},
                  Len(url.pathname) + 1) - 1)

\* The base path up to its last "/".
directoryOf(pathname) ==
    SubSeq(pathname, 1, maxOf(positionsOf(pathname, "/")))

\* new URL(href, baseUrl): an href with a scheme is parsed on its own, one
\* without is resolved against the base (//host..., /path, ?query, #fragment,
\* or a path relative to the directory of the base).
resolvedAgainst(href, base) ==
    IF indexOf(href, ":") > 1 /\ isAlpha(href[1])
         /\ \A i \in 1..(indexOf(href, ":") - 1) : isSchemeChar(href[i])
    THEN parseUrl(href)
    ELSE IF ~base.ok THEN InvalidUrl
    ELSE IF href = <<>> THEN base
    ELSE IF Len(href) >= 2 /\ href[1] \in {"/", "\\"} /\ href[2] \in {"/", "\\"}
    THEN parseUrl(base.protocol \o href)
    ELSE IF href[1] \in {"/", "\\"}
    THEN parseUrl(origin(base) \o href)
    ELSE IF href[1] \in {"?", "#"}
    THEN parseUrl(origin(base) \o pathnameOf(base) \o href)
    ELSE parseUrl(origin(base) \o directoryOf(pathnameOf(base)) \o href)

\* pageKeywords.some(keyword => path.includes(keyword))
hasKeyword(path) == \E k \in 1..Len(pageKeywords) : includes(path, pageKeywords[k])

\* Set.prototype.add on a Set kept in insertion order.
setAdd(set, value) ==
    IF \E i \in 1..Len(set) : set[i] = value THEN set ELSE Append(set, value)

\* The mutant of C14: links are compared by hostname only.
sameHostname(parsedUrl, parsedBase) == parsedUrl.hostname = parsedBase.hostname

\* parsedUrl.origin !== baseOrigin
sameOrigin(parsedUrl, parsedBase) == origin(parsedUrl) = origin(parsedBase)

\* The conditions of the each() callback on one link, absoluteUrl being
\* new URL(href, baseUrl): it parses, has the origin of the base and a
\* keyword in its lower-cased path.
qualifies(absoluteUrl, parsedBase) ==
    /\ absoluteUrl.ok
    /\ parseUrl(absoluteUrl.href).ok
    /\ sameOrigin(parseUrl(absoluteUrl.href), parsedBase)
    /\ hasKeyword(toLowerCase(pathnameOf(parseUrl(absoluteUrl.href))))

\* The Set after the each() callback on one link.
visited(pages, absoluteUrl, passes) ==
    IF passes /\ Len(pages) < SetLimit THEN setAdd(pages, absoluteUrl.href) ELSE pages

\* Array.prototype.slice(0, end)
slice(array, end) == SubSeq(array, 1, IF Len(array) < end THEN Len(array) ELSE end)

\* The longest homepage, in links.
MaxLinks == 11

ShopUrl == <<"h","t","t","p","s",":","/","/","a",".","c","o","m","/","s","h","o","p","/">>

BaseUrls == {HomeUrl, ShopUrl}

\* The links a homepage may have at each position: a page with a keyword of
\* its own, a link that tests one condition, or a page without keyword.
KeywordLinks ==
    <<<<"/","a","b","o","u","t">>, <<"/","c","o","n","t","a","c","t">>, <<"/","f","a","q">>, <<"/","h","e","l","p">>, <<"/","s","t","o","r","e">>, <<"/","c","o","m","p","a","n","y">>,
      <<"/","s","u","p","p","o","r","t">>, <<"/","s","e","r","v","i","c","e","s">>, <<"/","p","r","o","d","u","c","t","s">>, <<"/","o","u","r","-","s","t","o","r","y">>, <<"/","r","e","a","c","h","-","u","s">>>>

TestLinks ==
    <<<<"h","t","t","p","s",":","/","/","b",".","c","o","m","/","a","b","o","u","t">>, <<"/","a","b","o","u","t">>, <<"h","t","t","p",":","/","/","a",".","c","o","m","/","f","a","q">>,
      <<"h","t","t","p","s",":","/","/","a",".","c","o","m",":","8","4","4","3","/","h","e","l","p">>, <<"h","t","t","p","s",":","/","/","a",".","c","o","m",":","4","4","3","/","s","t","o","r","e">>,
      <<"H","T","T","P","S",":","/","/","A",".","C","O","M","/","C","o","m","p","a","n","y">>, <<"/","/","b",".","c","o","m","/","s","u","p","p","o","r","t">>, <<"s","e","r","v","i","c","e","s">>,
      <<"m","a","i","l","t","o",":","p","r","o","d","u","c","t","s","@","a",".","c","o","m">>, <<"h","t","t","p",":","/","/">>, <<"/","?","p","=","a","b","o","u","t">>>>

PlainLink == <<"/","b","l","o","g">>

LinkChoices(i) ==
    {KeywordLinks[((i - 1) % Len(KeywordLinks)) + 1],
     TestLinks[((i - 1) % Len(TestLinks)) + 1],
     PlainLink}

AllLinks ==
    {KeywordLinks[i] : i \in 1..Len(KeywordLinks)}
        \cup {TestLinks[i] : i \in 1..Len(TestLinks)} \cup {PlainLink}

\* new URL(href, baseUrl) for every base and link of the model.
absoluteUrls ==
    [base \in BaseUrls |-> [href \in AllLinks |-> resolvedAgainst(href, parseUrl(base))]]

\* Whether the callback's conditions hold, for every base and link of the model.
qualified ==
    [base \in BaseUrls |->
        [href \in AllLinks |-> qualifies(absoluteUrls[base][href], parseUrl(base))]]

LinkInit ==
    /\ baseUrl \in BaseUrls
    /\ links = <<>>
    /\ importantPages = <<>>
    /\ linkPc = "visiting"
    /\ returnedPages = <<>>

\* The each() callback on the next a[href] element.
VisitLink ==
    /\ linkPc = "visiting"
    /\ Len(links) < MaxLinks
    /\ \E href \in LinkChoices(Len(links) + 1) :
         /\ links' = Append(links, href)
         /\ importantPages' =
                visited(importantPages, absoluteUrls[baseUrl][href], qualified[baseUrl][href])
    /\ UNCHANGED <<baseUrl, linkPc, returnedPages, ipVars, urlVars, fetchVars, runVars>>

\* return Array.from(importantPages).slice(0, 5)
ReturnPages ==
    /\ linkPc = "visiting"
    /\ linkPc' = "returned"
    /\ returnedPages' = slice(importantPages, SliceEnd)
    /\ UNCHANGED <<baseUrl, links, importantPages, ipVars, urlVars, fetchVars, runVars>>

LinkNext == VisitLink \/ ReturnPages

LinkSpecInit == LinkInit /\ IpIdle /\ UrlIdle /\ FetchIdle /\ RunIdle

LinkSpec == LinkSpecInit /\ [][LinkNext]_vars
(***************************************************************************)
(* PageSpec: one run of analyzeWebsitePages over one page, started by the  *)
(* route for tenant A, together with the call of scrapeWebsite it makes:   *)
(* validateUrl, the fetch and the reading of the body.                     *)
(***************************************************************************)
PricingUrl == <<"h","t","t","p","s",":","/","/","a",".","c","o","m","/","p","r","i","c","i","n","g">>

PageUrlChoices ==
    {HomeUrl, PricingUrl, <<"h","t","t","p",":","/","/","l","o","c","a","l","h","o","s","t","/">>, <<"h","t","t","p",":","/","/","1","0",".","0",".","0",".","1","/","x">>, <<"f","t","p",":","/","/","a",".","c","o","m","/">>}

PageAnswers4 ==
    {NoAnswer, [rejected |-> FALSE, addresses |-> <<Public4a>>],
     [rejected |-> FALSE, addresses |-> <<Private4>>]}

PageAnswers6 == {NoAnswer}

PageBodies == {<<>>, <<1>>, <<600000>>, <<MAX_SIZE, 1>>}

PageResponses ==
    [status : {200, 301, 404}, contentType : {"text/html", "application/json"},
     contentLength : {-1, MAX_SIZE + 1}, chunks : PageBodies]

\* The profile a tenant may hold from an earlier analysis.
EarlierRows ==
    {NoRow,
     [exists |-> TRUE, websiteUrl |-> HomeUrl, status |-> "completed",
      analyzedContent |-> JSONstringify(extracted(HomeUrl)), errorMessage |-> <<>>,
      lastAnalyzedAt |-> "now"]}

\* The route has upserted the record (status pending), started the run and
\* responded; the page is served as the Init chooses.
PageInit ==
    /\ \E pageUrl \in PageUrlChoices, earlier \in EarlierRows, appendMode \in BOOLEAN :
         /\ websiteAnalysis =
              upsertWebsiteAnalysis([[t \in Tenants |-> NoRow] EXCEPT !["A"] = earlier],
                                    "A", earlier.exists,
                                    [websiteUrl |-> pageUrl, status |-> "pending"]).table
         /\ runs = [r \in RunIds |->
                      IF r = 1
                      THEN [IdleRun EXCEPT !.pc = "setAnalyzing", !.kind = "pages",
                                           !.httpStatus = 200, !.businessAccountId = "A",
                                           !.websiteUrl = pageUrl, !.pageUrls = <<pageUrl>>,
                                           !.appendMode = appendMode,
                                           !.existing = earlier.exists]
                      ELSE IdleRun]
         /\ onlyAppend = [t \in Tenants |-> t = "A" => appendMode]
    /\ analyzedPages = [t \in Tenants |-> <<>>]
    /\ finished = <<>>
    /\ fetchKind = "scrapeWebsite"
    /\ fetchPc = "idle"
    /\ timer = "none"
    /\ deadlinePassed = FALSE
    /\ served \in PageResponses
    /\ remaining = served.chunks
    /\ totalSize = 0
    /\ buffered = 0
    /\ consumed = 0
    /\ fetchCause = <<>>
    /\ fetchError = <<>>
    /\ returnedLength = 0

\* The scrape loop calls scrapeWebsite(pageUrl): validateUrl runs before the
\* try block, so its rejection leaves the call as thrown; otherwise the
\* timer is armed and the fetch is issued.
ScrapeWebsiteValidates(r) ==
    /\ runs[r].pc = "scrape"
    /\ fetchPc = "idle"
    /\ \E answer4 \in PageAnswers4, answer6 \in PageAnswers6 :
         IF validateUrl(runs[r].pageUrls[runs[r].next], answer4, answer6).ok
         THEN /\ fetchPc' = "fetching"
              /\ timer' = "armed"
              /\ UNCHANGED <<fetchCause, fetchError>>
         ELSE /\ fetchPc' = "thrown"
              /\ fetchCause' = validateUrl(runs[r].pageUrls[runs[r].next],
                                           answer4, answer6).error
              /\ fetchError' = fetchCause'
              /\ UNCHANGED timer
    /\ UNCHANGED <<fetchKind, deadlinePassed, served, remaining, totalSize, buffered,
                   consumed, returnedLength, ipVars, urlVars, linkVars, runVars>>

\* scrapeWebsite returned or threw: the turn of the scrape loop ends.
ScrapeReturns(r) ==
    /\ runs[r].pc = "scrape"
    /\ fetchPc \in {"returned", "thrown"}
    /\ goes(r, scrapeTurn(runs[r], fetchPc = "returned"))
    /\ UNCHANGED <<websiteAnalysis, analyzedPages, finished, onlyAppend, ipVars, urlVars, fetchVars, linkVars>>

\* new URL(pageUrl).pathname.split('/').filter(p => p).pop() || 'page'
pageName(pageUrl) ==
    IF SelectSeq(split(pathnameOf(parseUrl(pageUrl)), "/"), LAMBDA p : p # <<>>) = <<>>
    THEN <<"p","a","g","e">>
    ELSE lastOf(SelectSeq(split(pathnameOf(parseUrl(pageUrl)), "/"), LAMBDA p : p # <<>>))

\* The length of `${pageName.toUpperCase()} PAGE (${pageUrl}):\n${pageContent}\n\n`
\* (upper-casing keeps the length of a name).
sectionLength(pageUrl, contentLength) ==
    Len(pageName(pageUrl)) + Len(<<" ","P","A","G","E"," ","(">>) + Len(pageUrl) + Len(<<")",":">>) + 1
        + contentLength + 2

\* The length of the combinedContent of the run r once its page is scraped.
combinedLength(r) ==
    IF runs[r].combinedContent = <<>> THEN 0
    ELSE sectionLength(runs[r].pageUrls[1], returnedLength)

PageNext ==
    \/ TimePasses
    \/ ReceiveHeaders
    \/ FetchFails
    \/ ReadChunk
    \/ ReadDone
    \/ \E r \in {1} :
          \/ SetAnalyzing(r)
          \/ ScrapeWebsiteValidates(r)
          \/ ScrapeReturns(r)
          \/ GetExisting(r)
          \/ Synthesize(r)
          \/ Upsert(r)
          \/ SavePage(r)
          \/ SetCompleted(r)
          \/ Catch(r)

PageSpecInit == PageInit /\ IpIdle /\ UrlIdle /\ LinkIdle

PageSpec == PageSpecInit /\ [][PageNext]_vars


(***************************************************************************)
(* RunSpec: requests and runs that may overlap.  A started run takes its   *)
(* next step eventually: what it awaits returns or throws.                 *)
(***************************************************************************)
RunSpecInit == RunIdle /\ IpIdle /\ UrlIdle /\ FetchIdle /\ LinkIdle

RunNext ==
    \E r \in RunIds :
        \/ Post(r, Tenants)
        \/ StartAnalyzeWebsite(r)
        \/ StartAnalyzeWebsitePages(r)
        \/ RunStep(r)

RunSpec ==
    RunSpecInit /\ [][RunNext]_vars /\ \A r \in RunIds : WF_vars(RunStep(r))

(***************************************************************************)
(* SeqSpec: a tenant posts a request only when its previous request and    *)
(* run have ended.                                                         *)
(***************************************************************************)
SeqNext ==
    \E r \in RunIds :
        \/ Post(r, QuietTenants)
        \/ PagesStep(r)

SeqSpec == RunSpecInit /\ [][SeqNext]_vars
(***************************************************************************)
(* AdminSpec: analysis requests and their runs together with manual edits  *)
(* (PATCH) and resets (DELETE) of the two tenants, in any interleaving.    *)
(* An edit or a reset takes a place in runs as a request does.             *)
(***************************************************************************)
\* The body of a PATCH that passes updateWebsiteAnalysisSchema.
EditedProfile == [EmptyProfile EXCEPT !.mainProducts = {"edited"}]

FailedRow ==
    [exists |-> TRUE, websiteUrl |-> HomeUrl, status |-> "failed",
     analyzedContent |-> <<>>, errorMessage |-> MsgFailedToScrape,
     lastAnalyzedAt |-> "null"]

\* What earlier requests left of a tenant: nothing, a completed analysis of
\* the homepage with its page record, or a failed one.
StoredRows == EarlierRows \cup {FailedRow}

AdminInit ==
    /\ websiteAnalysis \in [Tenants -> StoredRows]
    /\ analyzedPages = [t \in Tenants |->
                          IF websiteAnalysis[t].status = "completed"
                          THEN uniquePages(<<HomeUrl>>) ELSE <<>>]
    /\ runs = [r \in RunIds |-> IdleRun]
    /\ finished = <<>>
    /\ onlyAppend = [t \in Tenants |-> websiteAnalysis[t].status # "completed"]

\* PATCH /api/website-analysis up to its getWebsiteAnalysis: 400 for a body
\* without valid analyzedContent, 404 for a tenant without record.
Patch(r) ==
    /\ runs[r].pc = "idle"
    /\ \A q \in RunIds : q < r => runs[q].pc # "idle"
    /\ \E t \in Tenants, valid \in BOOLEAN :
          IF ~valid
          THEN goes(r, [IdleRun EXCEPT !.pc = "responded", !.kind = "patch",
                                       !.businessAccountId = t, !.httpStatus = 400])
          ELSE IF ~getWebsiteAnalysis(websiteAnalysis, t).exists
          THEN goes(r, [IdleRun EXCEPT !.pc = "responded", !.kind = "patch",
                                       !.businessAccountId = t, !.httpStatus = 404])
          ELSE goes(r, [IdleRun EXCEPT
                           !.pc = "patchUpsert", !.kind = "patch", !.businessAccountId = t,
                           !.websiteUrl = getWebsiteAnalysis(websiteAnalysis, t).websiteUrl,
                           !.analyzedContent = JSONstringify(EditedProfile)])
    /\ UNCHANGED <<websiteAnalysis, analyzedPages, finished, onlyAppend, ipVars, urlVars, fetchVars, linkVars>>

\* The getWebsiteAnalysis that opens the upsert of the PATCH route.
PatchUpsertRead(r) ==
    /\ runs[r].pc = "patchUpsert"
    /\ goes(r, [runs[r] EXCEPT
                   !.pc = "patchWrite",
                   !.existing = getWebsiteAnalysis(websiteAnalysis,
                                                   runs[r].businessAccountId).exists])
    /\ UNCHANGED <<websiteAnalysis, analyzedPages, finished, onlyAppend, ipVars, urlVars, fetchVars, linkVars>>

\* What the PATCH route upserts: the websiteUrl it read, status completed
\* and the edited content.
editedAnalysis(run) ==
    [websiteUrl |-> run.websiteUrl, status |-> "completed",
     analyzedContent |-> run.analyzedContent]

patched(r, written) ==
    /\ websiteAnalysis' = written.table
    /\ goes(r, [runs[r] EXCEPT !.pc = "responded",
                               !.httpStatus = IF written.threw THEN 500 ELSE 200])

\* The write of that upsert; the route responds.
PatchWrite(r) ==
    /\ runs[r].pc = "patchWrite"
    /\ patched(r, upsertWebsiteAnalysis(websiteAnalysis, runs[r].businessAccountId,
                                        runs[r].existing, editedAnalysis(runs[r])))
    /\ UNCHANGED <<analyzedPages, finished, onlyAppend, ipVars, urlVars, fetchVars, linkVars>>

\* DELETE /api/website-analysis up to its deleteWebsiteAnalysis.
Delete(r) ==
    /\ runs[r].pc = "idle"
    /\ \A q \in RunIds : q < r => runs[q].pc # "idle"
    /\ \E t \in Tenants :
          /\ websiteAnalysis' = deleteWebsiteAnalysis(websiteAnalysis, t)
          /\ goes(r, [IdleRun EXCEPT !.pc = "deletePages", !.kind = "reset",
                                     !.businessAccountId = t])
    /\ UNCHANGED <<analyzedPages, finished, onlyAppend, ipVars, urlVars, fetchVars, linkVars>>

\* Its deleteAnalyzedPages; the route responds.
DeletePages(r) ==
    /\ runs[r].pc = "deletePages"
    /\ analyzedPages' = deleteAnalyzedPages(analyzedPages, runs[r].businessAccountId)
    /\ goes(r, [runs[r] EXCEPT !.pc = "responded", !.httpStatus = 200])
    /\ UNCHANGED <<websiteAnalysis, finished, onlyAppend, ipVars, urlVars, fetchVars, linkVars>>

AdminNext ==
    \E r \in RunIds :
        \/ Post(r, Tenants)
        \/ PagesStep(r)
        \/ Patch(r)
        \/ PatchUpsertRead(r)
        \/ PatchWrite(r)
        \/ Delete(r)
        \/ DeletePages(r)

AdminSpecInit == AdminInit /\ IpIdle /\ UrlIdle /\ FetchIdle /\ LinkIdle

AdminSpec == AdminSpecInit /\ [][AdminNext]_vars

(***************************************************************************)
(* IpSpec: isPrivateIP applied to a table of address texts                 *)
(***************************************************************************)
paddedText(n, pad) ==
    IF pad /\ n < 100 THEN <<"0">> \o decimalText(n) ELSE decimalText(n)

ipv4Text(n, pad) ==
    paddedText(n[1], pad) \o <<".">> \o decimalText(n[2]) \o <<".">>
        \o decimalText(n[3]) \o <<".">> \o decimalText(n[4])

FirstOctets == {0, 1, 8, 9, 10, 11, 126, 127, 128, 168, 169, 170, 171, 172, 173,
                191, 192, 193, 197, 198, 199, 202, 203, 204, 223, 224, 225, 255,
                256, 999}

SecondOctets == {0, 1, 8, 15, 16, 31, 32, 50, 51, 52, 167, 168, 169, 253, 254, 255, 256}

ThirdOctets == {0, 1, 2, 3, 8, 100, 101, 113, 114, 255, 256}

FourthOctets == {1, 8, 300}

\* IPv6 texts: a first group of four hexadecimal digits, then a tail.
GroupChars == {"f", "e", "d", "c", "b", "8", "0", "F", "E"}

Ipv6Tails == {<<":",":","1">>, <<":",":">>}

Ipv6Specials ==
    { <<":",":","1">>,
      <<":",":">>,
      <<":",":","f","f","f","f",":","7","f","0","0",":","1">>,
      <<":",":","F","F","F","F",":","1","0",".","0",".","0",".","1">>,
      <<":",":","f","f","f","f",":","8",".","8",".","8",".","8">> }

\* The table: IPv4 texts from the octet samples, IPv6 texts from a first group
\* and a tail, and the special IPv6 texts.
IpInit ==
    /\ \/ \E a \in FirstOctets, b \in SecondOctets, c \in ThirdOctets, d \in FourthOctets,
              p \in BOOLEAN :
              ipSrc = [kind |-> "v4", n |-> <<a, b, c, d>>, pad |-> p,
                       text |-> ipv4Text(<<a, b, c, d>>, p)]
       \/ \E g1 \in GroupChars, g2 \in GroupChars, g3 \in GroupChars, g4 \in GroupChars,
              t \in Ipv6Tails :
              ipSrc = [kind |-> "v6", group |-> <<g1, g2, g3, g4>>,
                       text |-> <<g1, g2, g3, g4>> \o t]
       \/ \E t \in Ipv6Specials : ipSrc = [kind |-> "special", text |-> t]
    /\ ip = ipSrc.text
    /\ ipResult = [called |-> FALSE, value |-> FALSE]

CallIsPrivateIP ==
    /\ ipSrc.kind # "idle"
    /\ ~ipResult.called
    /\ ipResult' = [called |-> TRUE, value |-> isPrivateIP(ip)]
    /\ UNCHANGED <<ip, ipSrc, urlVars, runVars, fetchVars, linkVars>>

IpNext == CallIsPrivateIP

IpSpecInit == IpInit /\ UrlIdle /\ RunIdle /\ FetchIdle /\ LinkIdle

IpSpec == IpSpecInit /\ [][IpNext]_vars

(***************************************************************************)
(* C9, C10: isPrivateIP against the address ranges                         *)
(***************************************************************************)
\* Whether the IPv4 address with octets n lies in base/len (len <= 24), by
\* comparing the leading len bits of the first three octets.
top24(n) == n[1] * 65536 + n[2] * 256 + n[3]

inCidr(n, base, len) == top24(n) \div pow2(24 - len) = top24(base) \div pow2(24 - len)

BlockedCidrs ==
    { <<<<0, 0, 0>>, 8>>, <<<<10, 0, 0>>, 8>>, <<<<127, 0, 0>>, 8>>,
      <<<<172, 16, 0>>, 12>>, <<<<192, 168, 0>>, 16>>, <<<<169, 254, 0>>, 16>>,
      <<<<192, 0, 2>>, 24>>, <<<<198, 51, 100>>, 24>>, <<<<203, 0, 113>>, 24>> }

ExpectedBlockedV4(n) ==
    \/ \E k \in 1..4 : n[k] > 255
    \/ \E r \in BlockedCidrs : inCidr(n, r[1], r[2])
    \/ n[1] >= 224

\* C9: for every text of four dot-separated decimal components of one to
\* three digits, isPrivateIP returns true exactly when a component exceeds
\* 255 or the address lies in one of the blocked IPv4 ranges or has a first
\* octet >= 224, and false otherwise.
C9_Ipv4Table ==
    (ipResult.called /\ ipSrc.kind = "v4")
        => (ipResult.value <=> ExpectedBlockedV4(ipSrc.n))

\* C9 witness: the public address 172.32.0.1 just above 172.16.0.0/12 was
\* checked and let through.
C9_Witness ==
    /\ ipResult.called
    /\ ipSrc.kind = "v4"
    /\ ipSrc.n = <<172, 32, 0, 1>>
    /\ ~ipResult.value

\* The 16-bit value of a first group, and the IPv6 ranges by their prefixes.
groupValue(g) == numberIn(g, 16)

InLinkLocal(g) == groupValue(g) \div 64 = 65152 \div 64       \* fe80::/10

InUniqueLocal(g) == groupValue(g) \div 512 = 64512 \div 512   \* fc00::/7

InMulticast(g) == groupValue(g) \div 256 = 65280 \div 256     \* ff00::/8

\* C10: isPrivateIP returns true for every IPv6 text in the loopback,
\* IPv4-mapped, link-local fe80::/10, unique-local fc00::/7, multicast
\* ff00::/8 and unspecified ranges, in either letter case.
C10_Ipv6Ranges ==
    /\ (ipResult.called /\ ipSrc.kind = "special") => ipResult.value
    /\ (ipResult.called /\ ipSrc.kind = "v6"
            /\ (InLinkLocal(ipSrc.group) \/ InUniqueLocal(ipSrc.group) \/ InMulticast(ipSrc.group)))
        => ipResult.value

(***************************************************************************)
(* C5 - C8: validateUrl and the fetch it gates                             *)
(***************************************************************************)
\* C5: every HTTP request of a call goes to the URL validateUrl accepted
\* earlier in that call, there is one request per call, and a 3xx response
\* ends the call with an error (its Location is never requested).
C5_FetchOnlyValidated ==
    /\ Len(requests) <= 1
    /\ \A i \in 1..Len(requests) : validated.ok /\ requests[i] = validated.url.href
    /\ (response >= 300 /\ response < 400) => (callPc = "thrown" /\ callError # <<>>)

\* C5 witness: a validated URL was requested, answered 301, and the call threw.
C5_Witness ==
    /\ response = 301
    /\ validated.ok
    /\ requests = <<validated.url.href>>
    /\ callPc = "thrown"

\* The hostname of the call's URL as new URL() gives it, and whether it is an
\* IP literal (a bracketed IPv6 address or a dotted IPv4 address).
callHostname == parseUrl(ensureProtocol(callUrl)).hostname

isIpLiteral(hostname) ==
    hostname # <<>> /\ (hostname[1] = "[" \/ ipv4Match(hostname) # <<>>)

answered(answer) == IF answer.rejected THEN {} ELSE {answer.addresses[i] : i \in 1..Len(answer.addresses)}

resolvedAddresses == answered(dns.a) \cup answered(dns.aaaa)

\* C6: for a hostname that is no IP literal, validateUrl fails whenever one of
\* the resolved A and AAAA addresses is blocked, wherever it stands among
\* them; it fails with the unresolvable-host error when both lookups yield no
\* address; and one failed lookup beside a clean one is tolerated.
C6_EveryResolvedAddressChecked ==
    (callPc # "validate" /\ validated.lookedUp /\ ~isIpLiteral(callHostname))
        => /\ (\E a \in resolvedAddresses : isPrivateIP(a)) => ~validated.ok
           /\ (resolvedAddresses = {}) => (~validated.ok /\ validated.error = MsgUnableToResolve)
           /\ (/\ dns.a.rejected # dns.aaaa.rejected
               /\ \A a \in resolvedAddresses : ~isPrivateIP(a)) => validated.ok

\* C6 witness: two public addresses and then a private one were resolved, and
\* the URL was rejected for it.
C6_Witness ==
    /\ callPc = "thrown"
    /\ validated.lookedUp
    /\ ~isIpLiteral(callHostname)
    /\ dns.a = [rejected |-> FALSE, addresses |-> <<Public4a, Public4b, Private4>>]
    /\ validated.error = MsgResolvesPrivate

\* The scheme the caller wrote: the text before "://", or <<>> when there is none.
RECURSIVE givenScheme(_)
givenScheme(url) ==
    IF Len(url) < 3 THEN <<>>
    ELSE IF startsWith(url, <<":","/","/">>) THEN <<>>
    ELSE IF ~includes(url, <<":","/","/">>) THEN <<>>
    ELSE <<url[1]>> \o givenScheme(Tail(url))

writtenScheme(url) == IF includes(url, <<":","/","/">>) THEN givenScheme(url) ELSE <<"n","o","n","e">>

\* C7: validateUrl rejects every input whose scheme is other than http or
\* https with the protocol error, http://localhost/x with the blocked-host
\* error and an unparseable input with the invalid-URL error, three distinct
\* errors.
C7_ErrorKinds ==
    (callPc # "validate")
        => /\ (writtenScheme(callUrl) \notin {<<"h","t","t","p">>, <<"h","t","t","p","s">>, <<"n","o","n","e">>})
                => (~validated.ok /\ validated.error = MsgProtocol)
           /\ (callUrl = <<"h","t","t","p",":","/","/","l","o","c","a","l","h","o","s","t","/","x">>)
                => (~validated.ok /\ validated.error = MsgLocalhost)
           /\ (callUrl = <<"n","o","t"," ","a"," ","u","r","l">>)
                => (~validated.ok /\ validated.error = MsgInvalidUrl)
           /\ MsgProtocol # MsgLocalhost /\ MsgLocalhost # MsgInvalidUrl
           /\ MsgProtocol # MsgInvalidUrl

\* C8: validateUrl succeeds for every http/https URL whose hostname is not
\* localhost, does not contain "metadata", is no IP literal and resolves to a
\* non-empty set of addresses none of which is blocked, whatever the hostname
\* begins with.
C8_PublicHostnameAccepted ==
    (/\ callPc # "validate"
     /\ parseUrl(ensureProtocol(callUrl)).ok
     /\ parseUrl(ensureProtocol(callUrl)).protocol \in {<<"h","t","t","p",":">>, <<"h","t","t","p","s",":">>}
     /\ callHostname # <<"l","o","c","a","l","h","o","s","t">>
     /\ ~includes(callHostname, <<"m","e","t","a","d","a","t","a">>)
     /\ ~isIpLiteral(callHostname)
     /\ resolvedAddresses # {}
     /\ \A a \in resolvedAddresses : ~isPrivateIP(a))
        => validated.ok

(***************************************************************************)
(* C1 - C4: the status and the profile under the runs                      *)
(***************************************************************************)
StatusTransitions ==
    {<<"not_started", "pending">>, <<"pending", "analyzing">>,
     <<"analyzing", "completed">>, <<"analyzing", "failed">>,
     <<"completed", "pending">>, <<"failed", "pending">>}

listsOf(analyzedContent) == JSONparse(analyzedContent)

\* C3: while every run of a tenant is an append-mode run, a stored profile
\* keeps every element of the list fields of the profile stored before it.
C3_ListsNeverShrink ==
    [][\A t \in Tenants :
          (/\ onlyAppend'[t]
           /\ websiteAnalysis[t].analyzedContent # <<>>
           /\ websiteAnalysis'[t].analyzedContent # <<>>)
              => \A field \in ListFields :
                    listsOf(websiteAnalysis[t].analyzedContent)[field]
                        \subseteq listsOf(websiteAnalysis'[t].analyzedContent)[field]]_vars

\* The runs of a tenant that ended, in the order they did.
endedOf(t) == SelectSeq(finished, LAMBDA r : runs[r].businessAccountId = t)

lastEnded(t) == endedOf(t)[Len(endedOf(t))]

\* C4: once two overlapping runs of a tenant, started by the route, have both
\* ended, the stored status is the one the run that ended last wrote, and if
\* that run completed the stored profile is the one it persisted.
C4_LastWriterWins ==
    \A t \in Tenants :
        (/\ t \in QuietTenants
         /\ Len(endedOf(t)) >= 2
         /\ \A r \in RunIds : runs[r].businessAccountId = t => runs[r].kind = "pages"
         /\ \E r \in RunIds : runs[r].businessAccountId = t /\ runs[r].overlaps)
            => /\ storedStatus(t) = runs[lastEnded(t)].statusWritten
               /\ runs[lastEnded(t)].statusWritten = "completed"
                    => websiteAnalysis[t].analyzedContent = runs[lastEnded(t)].persisted

(***************************************************************************)
(* Claims about one fetch (BodySpec).                                      *)
(***************************************************************************)
\* The chunks of the served body the read loop has taken so far.
chunksRead == SubSeq(served.chunks, 1, Len(served.chunks) - Len(remaining))

\* C11: during a page scrape the body bytes held in the buffer never exceed
\* the 5 MiB cap, whatever Content-Length declares or omits: the chunk that
\* takes the cumulative count over the cap is not buffered and the fetch ends
\* with the size error at that chunk, and a body of exactly the cap size is
\* accepted (chunks are buffered and read on as long as the count is within
\* the cap, a declared length equal to the cap is no error).
C11_BufferWithinCap ==
    (fetchKind = "scrapeWebsite") =>
        /\ buffered <= MAX_SIZE
        /\ (totalSize > MAX_SIZE) <=> (fetchCause = MsgExceeded)
        /\ (fetchCause = MsgExceeded)
             => /\ fetchPc = "thrown"
                /\ byteLength(chunksRead) > MAX_SIZE
                /\ buffered = byteLength(SubSeq(chunksRead, 1, Len(chunksRead) - 1))
        /\ (totalSize <= MAX_SIZE) => (buffered = byteLength(chunksRead))
        /\ (served.contentLength # -1 /\ served.contentLength <= MAX_SIZE)
             => (fetchCause # MsgTooLarge)
        /\ (fetchPc = "returned") => (buffered = byteLength(served.chunks))

\* A response that declares 100 bytes streams the cap and one byte more: the
\* read loop holds exactly the cap and ends at the last chunk.
C11_Witness ==
    /\ fetchKind = "scrapeWebsite"
    /\ served.contentLength = 100
    /\ fetchCause = MsgExceeded
    /\ buffered = MAX_SIZE
    /\ totalSize = MAX_SIZE + 1

\* C12: the pre-fetch of the homepage for link discovery never reads or
\* buffers more than 500 KiB of response body, also when Content-Length is
\* absent or understates the body.
C12_PrefetchWithinCap ==
    (fetchKind = "fetchPageHtml") => (consumed <= 500 * 1024 /\ buffered <= 500 * 1024)

\* C13: no fetch outlives its timer: once the timeout of the call has
\* elapsed, while waiting for the headers or while reading the body, the call
\* has ended with the timeout error, which differs from what a network error
\* gives.
C13_TimeoutBoundsFetch ==
    deadlinePassed =>
        /\ fetchPc = "thrown"
        /\ fetchCause = AbortError
        /\ fetchError # catchOf(fetchKind, FetchFailed)

(***************************************************************************)
(* Claims about findImportantPages (LinkSpec).                             *)
(***************************************************************************)
\* Whether the URL a link stands for has scheme, host and port of the base
\* and one of the keywords in its path, for every base and link of the model.
matchesBase ==
    [base \in BaseUrls |-> [href \in AllLinks |->
        /\ absoluteUrls[base][href].ok
        /\ absoluteUrls[base][href].protocol = parseUrl(base).protocol
        /\ absoluteUrls[base][href].hostname = parseUrl(base).hostname
        /\ absoluteUrls[base][href].port = parseUrl(base).port
        /\ \E k \in 1..Len(pageKeywords) :
              includes(toLowerCase(pathnameOf(absoluteUrls[base][href])), pageKeywords[k])]]

\* The URLs of the links from position i on that match and are neither in
\* seen nor the URL of an earlier one of them, in document order.
RECURSIVE matchingFrom(_, _)
matchingFrom(i, seen) ==
    IF i > Len(links) THEN <<>>
    ELSE IF /\ matchesBase[baseUrl][links[i]]
            /\ absoluteUrls[baseUrl][links[i]].href \notin seen
    THEN <<absoluteUrls[baseUrl][links[i]].href>>
            \o matchingFrom(i + 1, seen \cup {absoluteUrls[baseUrl][links[i]].href})
    ELSE matchingFrom(i + 1, seen)

\* C14: findImportantPages returns at most 5 URLs, pairwise distinct, each
\* the URL of a link with the origin of the base URL and a keyword in its
\* path: the first matching distinct links of the page in document order.
C14_FirstFiveMatching ==
    (linkPc = "returned") =>
        /\ Len(returnedPages) <= 5
        /\ \A i, j \in 1..Len(returnedPages) :
              (i # j) => (returnedPages[i] # returnedPages[j])
        /\ \A k \in 1..Len(returnedPages) :
              \E i \in 1..Len(links) :
                 /\ matchesBase[baseUrl][links[i]]
                 /\ returnedPages[k] = absoluteUrls[baseUrl][links[i]].href
        /\ Len(returnedPages) = 5 \/ returnedPages = matchingFrom(1, {})
        /\ returnedPages = SubSeq(matchingFrom(1, {}), 1, Len(returnedPages))

\* A homepage whose first link goes to another domain and whose other ten
\* links match: the Set reached its limit and five pages are returned.
C14_Witness ==
    /\ linkPc = "returned"
    /\ links # <<>>
    /\ links[1] = <<"h","t","t","p","s",":","/","/","b",".","c","o","m","/","a","b","o","u","t">>
    /\ Len(importantPages) = SetLimit
    /\ Len(returnedPages) = 5
    /\ Len(matchingFrom(1, {})) > 5

(***************************************************************************)
(* Claims about the pages of a run (RunSpec, SeqSpec).                     *)
(***************************************************************************)
\* The normalized URLs of the pages a run scraped.
scrapedBy(run) == {normalized(run.combinedContent[i]) : i \in 1..Len(run.combinedContent)}

\* C15: every page record a run appends is for a URL the run scraped: a URL
\* whose scrape failed gets no record.  In particular a run of analyzeWebsite
\* that completed with the homepage as its only scraped page appended no
\* record but the homepage's.
C15_RecordsOnlyForScraped ==
    \A r \in RunIds :
        /\ \A i \in 1..Len(runs[r].saved) : runs[r].saved[i] \in scrapedBy(runs[r])
        /\ (/\ runs[r].kind = "site"
            /\ runs[r].pc = "done"
            /\ runs[r].combinedContent = <<runs[r].websiteUrl>>)
              => (runs[r].statusWritten = "completed" => Len(runs[r].saved) <= 1)

\* C16: the analyzed-pages log of a tenant holds at most one row per
\* normalized URL, whatever runs completed.
C16_OneRowPerUrl ==
    \A t \in Tenants :
        \A i, j \in 1..Len(analyzedPages[t]) :
            (i # j) => (analyzedPages[t][i] # analyzedPages[t][j])

profileStored(t) ==
    websiteAnalysis[t].exists /\ websiteAnalysis[t].analyzedContent # <<>>

\* C18: a run of analyzeWebsitePages makes one Synthesizer call:
\* mergeAnalysisData with the stored profile exactly when appendMode is set
\* and the tenant has a stored profile, analyzeWithOpenAI otherwise; an append
\* run without stored profile persists what a replace run of the same pages
\* persists.
C18_MergeOnlyOntoProfile ==
    /\ [][\A r \in RunIds :
            (runs[r].pc = "synthesize" /\ runs'[r].pc \in {"upsert", "catch"})
              => /\ runs'[r].synthesizerCalls =
                       <<IF runs[r].appendMode /\ profileStored(runs[r].businessAccountId)
                         THEN "mergeAnalysisData" ELSE "analyzeWithOpenAI">>
                 /\ (runs'[r].pc = "upsert")
                       => runs'[r].analyzedContent =
                            JSONstringify(
                              IF runs[r].appendMode
                                   /\ profileStored(runs[r].businessAccountId)
                              THEN mergeAnalysisData(
                                     JSONparse(websiteAnalysis[runs[r].businessAccountId]
                                                   .analyzedContent),
                                     runs[r].combinedContent)
                              ELSE analyzeWithOpenAI(runs[r].combinedContent))]_vars
    /\ [](\A r \in RunIds :
            (runs[r].pc = "done" /\ runs[r].statusWritten = "completed")
              => /\ Len(runs[r].synthesizerCalls) = 1
                 /\ (runs[r].synthesizerCalls = <<"analyzeWithOpenAI">>)
                       => /\ runs[r].persisted =
                               JSONstringify(analyzeWithOpenAI(runs[r].combinedContent))
                          /\ \A i \in 1..Len(runs[r].saved) :
                                \E k \in 1..Len(runs[r].pageUrls) :
                                    runs[r].saved[i] = normalized(runs[r].pageUrls[k]))

\* A tenant's first append run found no profile and analyzed, its second
\* append run merged.
C18_Witness ==
    /\ runs[1].pc = "done" /\ runs[1].appendMode
    /\ runs[1].statusWritten = "completed"
    /\ runs[1].synthesizerCalls = <<"analyzeWithOpenAI">>
    /\ runs[2].pc = "done" /\ runs[2].appendMode
    /\ runs[2].businessAccountId = runs[1].businessAccountId
    /\ runs[2].synthesizerCalls = <<"mergeAnalysisData">>
    /\ runs[2].statusWritten = "completed"

\* C19: when a run of analyzeWebsitePages completes, the websiteUrl of the
\* record is the first element of the run's list of URLs, also when that
\* URL's scrape failed and when the list holds the additional pages only.
C19_WebsiteUrlIsFirstPage ==
    [][\A r \in RunIds :
          (runs[r].pc = "setCompleted" /\ runs'[r].pc = "done")
            => /\ websiteAnalysis'[runs[r].businessAccountId].status = "completed"
               /\ websiteAnalysis'[runs[r].businessAccountId].websiteUrl
                     = runs[r].pageUrls[1]]_vars

\* One tenant's run completed although its first page failed, another
\* tenant's run completed on the additional pages only.
C19_Witness ==
    \E r, q \in RunIds :
        /\ runs[r].pc = "done" /\ runs[r].statusWritten = "completed"
        /\ Len(runs[r].pageUrls) = 2
        /\ runs[r].pageUrls[1] \notin scrapedBy(runs[r])
        /\ runs[r].combinedContent = <<runs[r].pageUrls[2]>>
        /\ websiteAnalysis[runs[r].businessAccountId].websiteUrl = runs[r].pageUrls[1]
        /\ runs[q].pc = "done" /\ runs[q].statusWritten = "completed"
        /\ runs[q].businessAccountId # runs[r].businessAccountId
        /\ Len(runs[q].pageUrls) = 1
        /\ runs[q].websiteUrl # runs[q].pageUrls[1]
        /\ websiteAnalysis[runs[q].businessAccountId].websiteUrl = runs[q].pageUrls[1]

C21_SiteRunSurvivesPageFailures ==
    \A r \in RunIds :
        (runs[r].kind = "site" /\ runs[r].combinedContent # <<>>)
          => /\ (runs[r].pc \in {"catch", "done"}) => (runs[r].synthesizerCalls # <<>>)
             /\ (runs[r].pc = "done" /\ runs[r].persisted # <<>>)
                   => (runs[r].statusWritten = "completed")

\* The kind of failure a cause thrown inside scrapeWebsite stands for.
causeKind(cause) ==
    IF cause = MsgScrapeRedirect THEN "redirect"
    ELSE IF cause = MsgNotHtml THEN "content type"
    ELSE IF cause \in {MsgTooLarge, MsgExceeded} THEN "size"
    ELSE IF cause = AbortError THEN "timeout"
    ELSE IF cause = FetchFailed THEN "network"
    ELSE IF cause = MsgNoBody THEN "no body"
    ELSE "http"

ScrapeCauses ==
    {MsgScrapeRedirect, MsgScrapeHttp(404), MsgNotHtml, MsgTooLarge, MsgExceeded, AbortError}

\* C22: the error a page scrape ends with identifies its cause: a 3xx
\* response, a non-2xx response, a content type without text/html, a body
\* over the size cap and a timeout each surface from scrapeWebsite as an
\* error of their own, which is neither the error of a cause of another kind
\* nor the generic error of a network failure.
C22_ErrorIdentifiesCause ==
    (fetchKind = "scrapeWebsite" /\ fetchPc = "thrown" /\ fetchCause \in ScrapeCauses)
      => /\ fetchError # catchOf("scrapeWebsite", FetchFailed)
         /\ \A other \in ScrapeCauses :
               (causeKind(other) # causeKind(fetchCause))
                  => (catchOf("scrapeWebsite", other) # fetchError)

\* C23: in a run of analyzeWebsitePages over one URL, when the page was
\* rejected by validateUrl or its fetch failed, the record ends at status
\* failed with the message of that page's error as its errorMessage.
C23_PageErrorIsRunError ==
    (runs[1].pc = "done" /\ fetchPc = "thrown")
       => /\ websiteAnalysis["A"].status = "failed"
          /\ websiteAnalysis["A"].errorMessage = fetchError

\* C25: the text a run hands to the Synthesizer is at most 25,000 characters
\* long.
C25_SynthesizerInputCapped ==
    (runs[1].synthesizerCalls # <<>>) => (combinedLength(1) <= ContentLimit)

\* The messages the service words itself.
ServiceMessages ==
    {MsgFailedToScrape, MsgEmptyResponse, MsgTimedOut, MsgUnableToAccess,
     MsgInvalidUrl, MsgProtocol, MsgLocalhost, MsgMetadata, MsgPrivateIp}

\* C24: the errorMessage stored with status failed is one of the messages
\* the service words itself, never the raw message of an exception of the
\* Synthesizer client, of JSON.parse or of the storage layer.
C24_StoredMessageIsGeneric ==
    \A t \in Tenants :
        (websiteAnalysis[t].exists /\ websiteAnalysis[t].status = "failed")
           => (websiteAnalysis[t].errorMessage \in ServiceMessages)

(***************************************************************************)
(* Claims about tenants, edits and resets                                  *)
(***************************************************************************)
\* C26: every step of a run, an edit or a reset of one tenant leaves the
\* record and the page rows of the other tenant as they are, and the read
\* of step 2 of a run gives the profile of the run's own tenant.
C26_TenantScoped ==
    [][\A r \in RunIds :
          (runs'[r] # runs[r])
            => /\ \A other \in Tenants \ {runs'[r].businessAccountId} :
                     /\ websiteAnalysis'[other] = websiteAnalysis[other]
                     /\ analyzedPages'[other] = analyzedPages[other]
               /\ (runs[r].pc = "getExisting")
                     => (runs'[r].existingData
                            = existingDataOf(websiteAnalysis[runs[r].businessAccountId]))]_vars

\* A reset of one tenant has responded and a run of the other tenant has
\* read its stored profile, whose page rows are still there.
C26_Witness ==
    \E d \in RunIds, r \in RunIds :
        /\ runs[d].kind = "reset" /\ runs[d].pc = "responded"
        /\ runs[r].kind = "pages" /\ runs[r].existingData # <<>>
        /\ runs[r].businessAccountId # runs[d].businessAccountId
        /\ analyzedPages[runs[r].businessAccountId] # <<>>

\* C27: a record with status completed has lastAnalyzedAt set and a record
\* with status failed has errorMessage set, in every state.
C27_StatusFieldsSet ==
    \A t \in Tenants :
        websiteAnalysis[t].exists
          => /\ (websiteAnalysis[t].status = "completed")
                   => (websiteAnalysis[t].lastAnalyzedAt # "null")
             /\ (websiteAnalysis[t].status = "failed")
                   => (websiteAnalysis[t].errorMessage # <<>>)

\* C28: once a reset of a tenant has responded and no analysis request came
\* after it, the tenant has no record (status not_started, no analyzed
\* content) and no page rows.
C28_ResetIsFinal ==
    \A d \in RunIds :
        (/\ runs[d].kind = "reset"
         /\ runs[d].pc = "responded"
         /\ \A q \in RunIds : q > d => runs[q].kind \notin {"pages", "patch"})
          => /\ storedStatus(runs[d].businessAccountId) = "not_started"
             /\ getAnalyzedContent(runs[d].businessAccountId) = <<>>
             /\ analyzedPages[runs[d].businessAccountId] = <<>>

\* C30: a record holds an errorMessage only while its status is failed.
C30_ErrorMessageOnlyWhenFailed ==
    \A t \in Tenants :
        (websiteAnalysis[t].exists /\ websiteAnalysis[t].errorMessage # <<>>)
           => (websiteAnalysis[t].status = "failed")

\* The columns of a record that hold the profile and its website.
profileColumns(row) == <<row.exists, row.websiteUrl, row.analyzedContent>>

====
